---- MODULE Spec2Model ----
(***************************************************************************)
(* A model of the private-transaction core of snarkVM: the Request         *)
(* sign/verify protocol, the Transition assembler, the coinbase puzzle and  *)
(* the transition output storage.                                           *)
(*                                                                          *)
(* The elliptic-curve group is modelled as the cyclic group of prime order  *)
(* ScalarModulus: the point k*G is represented by k.  Field elements are    *)
(* the integers modulo FieldModulus.  The hash primitives (Poseidon, BHP)   *)
(* are opaque in the source; here they are deterministic sponges over small *)
(* fields, so they do collide: nothing below relies on collision-freeness.  *)
(***************************************************************************)
EXTENDS Integers, Sequences, FiniteSets, TLC

VARIABLES
    pc,          \* position of the scenario that is being run
    private_key, \* Request: the signer's private key [sk_sig, r_sig]
    program_id,  \* Request: the program ID [name, network]
    function_name,
    inputs,      \* Request: the inputs handed to sign
    input_types, \* Request: the declared input types handed to sign
    nonce,       \* Request: the random nonce drawn by sign
    request,     \* Request: the request sign returned, later possibly altered
    signed,      \* Request: the request exactly as sign returned it
    vtypes,      \* Request: the input types handed to verify
    vtpk,        \* Request: the tpk handed to verify
    altered,     \* Request: the name of the one field altered after signing
    sign_result, \* Request: what sign returned: "none" yet, "ok" or "error"
    result,      \* Request: what verify returned: "none" yet, "true", "false", "halt"
    epoch_challenge,  \* Puzzle: the epoch challenge of the run
    proved,           \* Puzzle: the prover solutions prove returned, each with its minimum target
    prove_result,     \* Puzzle: what the last prove returned: "none" yet, "ok" or "error"
    coinbase,         \* Puzzle: what accumulate_unchecked returned
    targets,          \* Puzzle: the coinbase target and the proof target handed to verify
    puzzle_result,    \* Puzzle: what verify returned: "none" yet, "true", "false" or an error
    store,            \* Storage: the eight maps of the output storage
    store_before,     \* Storage: the maps as they were before the last call
    last_call,        \* Storage: the last call of the storage and what it returned
    calls,            \* Storage: the number of calls made
    tr_request,       \* Transition: the request handed to Transition::from
    tr_input_types,   \* Transition: the input types the request was signed for
    tr_response,      \* Transition: the response: the output IDs and the outputs
    tr_output_types,  \* Transition: the output types
    tr_output_registers, \* Transition: the locators of the output registers
    tr_altered,       \* Transition: the name of what was altered before the call
    transition,       \* Transition: what Transition::from returned
    wire_transition,  \* Bytes: the transition Transition::new returned
    wire_bytes,       \* Bytes: the buffer write_le filled
    wire_cut,         \* Bytes: what read_le returned for the buffer without its first byte
    wire_result,      \* Bytes: what read_le returned for the buffer
    wire_output,      \* Bytes: the output whose bytes the buffer holds
    dom_degree,       \* Domain: the degree handed to product_domain
    dom_result        \* Domain: what product_domain returned

reqVars == <<private_key, program_id, function_name, inputs, input_types, nonce,
             request, signed, vtypes, vtpk, altered, sign_result, result>>

puzVars == <<epoch_challenge, proved, prove_result, coinbase, targets, puzzle_result>>

stoVars == <<store, store_before, last_call, calls>>

traVars == <<tr_request, tr_input_types, tr_response, tr_output_types,
             tr_output_registers, tr_altered, transition>>

bytVars == <<wire_transition, wire_bytes, wire_cut, wire_result>>

domVars == <<dom_degree, dom_result>>

vars == <<pc, reqVars, puzVars, stoVars, traVars, bytVars, wire_output, domVars>>

othersOfRequest == <<puzVars, stoVars, traVars, bytVars, wire_output, domVars>>
othersOfPuzzle == <<reqVars, stoVars, traVars, bytVars, wire_output, domVars>>
othersOfStorage == <<reqVars, puzVars, traVars, bytVars, wire_output, domVars>>
othersOfTransition == <<reqVars, puzVars, stoVars, bytVars, wire_output, domVars>>
othersOfBytes == <<reqVars, puzVars, stoVars, traVars, wire_output, domVars>>
othersOfOutputBytes ==
    <<reqVars, puzVars, stoVars, traVars, wire_transition, domVars>>
othersOfDomain == <<reqVars, puzVars, stoVars, traVars, bytVars, wire_output>>

\* The variables of the other parts while the scenario of one part runs.
PuzzleIdle ==
    /\ epoch_challenge = 0
    /\ proved = <<>>
    /\ prove_result = "none"
    /\ coinbase = 0
    /\ targets = 0
    /\ puzzle_result = "none"

TransitionIdle ==
    /\ tr_request = 0
    /\ tr_input_types = <<>>
    /\ tr_response = 0
    /\ tr_output_types = <<>>
    /\ tr_output_registers = <<>>
    /\ tr_altered = "none"
    /\ transition = 0

BytesIdle ==
    /\ wire_transition = 0
    /\ wire_bytes = <<>>
    /\ wire_cut = 0
    /\ wire_result = 0
    /\ wire_output = 0

DomainIdle ==
    /\ dom_degree = 0
    /\ dom_result = 0

StorageIdle ==
    /\ store = 0
    /\ store_before = 0
    /\ last_call = 0
    /\ calls = 0

RequestIdle ==
    /\ private_key = 0
    /\ program_id = 0
    /\ function_name = 0
    /\ inputs = <<>>
    /\ input_types = <<>>
    /\ nonce = 0
    /\ request = 0
    /\ signed = 0
    /\ vtypes = <<>>
    /\ vtpk = 0
    /\ altered = 0
    /\ sign_result = "none"
    /\ result = "none"

(***************************************************************************)
(* Bounds of the model.                                                     *)
(***************************************************************************)
MaxInputs == 2

(***************************************************************************)
(* Fields, scalars and the group.                                           *)
(***************************************************************************)
ScalarModulus == 5
FieldModulus == 7

Scalars == 0 .. (ScalarModulus - 1)
Fields == 0 .. (FieldModulus - 1)
Groups == Scalars

NETWORK_ID == 3

Min(a, b) == IF a < b THEN a ELSE b

ScalarAdd(a, b) == (a + b) % ScalarModulus
ScalarMul(a, b) == (a * b) % ScalarModulus
ScalarSub(a, b) == (a + ScalarModulus - (b % ScalarModulus)) % ScalarModulus

\* Group addition and scalar multiplication, on discrete logarithms.
GroupAdd(p, q) == (p + q) % ScalarModulus
GroupMul(p, s) == (p * s) % ScalarModulus

\* `s * G`, with the generator G represented by 1.
g_scalar_multiply(s) == s % ScalarModulus

\* The x-coordinate of a point of the prime-order subgroup: injective.
to_x_coordinate(p) == (3 * p + 2) % FieldModulus

\* A scalar as a field element (the scalar field is the smaller one).
ScalarToField(s) == s

(***************************************************************************)
(* The hash primitives, as sponges with one domain tag each.                *)
(***************************************************************************)
RECURSIVE Absorb(_, _)
Absorb(state, xs) ==
    IF xs = <<>> THEN state
    ELSE Absorb((state * 5 + Head(xs) + 3) % 211, Tail(xs))

hash_psd2(xs) == Absorb(2, xs) % FieldModulus
hash_psd4(xs) == Absorb(4, xs) % FieldModulus
hash_psd8(xs) == Absorb(8, xs) % FieldModulus
hash_to_scalar_psd2(xs) == Absorb(12, xs) % ScalarModulus
hash_to_scalar_psd4(xs) == Absorb(14, xs) % ScalarModulus
hash_to_scalar_psd8(xs) == Absorb(18, xs) % ScalarModulus
hash_to_group_psd2(xs) == Absorb(22, xs) % ScalarModulus
hash_bhp1024(bits) == Absorb(24, bits) % FieldModulus
commit_bhp512(bits, randomizer) == Absorb(25, bits \o <<randomizer>>) % FieldModulus

serial_number_domain == 6
graph_key_domain == 4

encryption_domain == 2

(***************************************************************************)
(* Values, records and value types.                                         *)
(***************************************************************************)
\* A u64 is the set of the positions of its one-bits (bit 0 the least one).
\* `to_bits_le` of a u64: 64 booleans, least significant first.
to_bits_le(u64) == [i \in 1 .. 64 |-> (i - 1) \in u64]

\* 2^i modulo the field modulus, by squaring.
RECURSIVE Pow2Mod(_)
Pow2Mod(i) ==
    IF i = 0 THEN 1
    ELSE LET h == Pow2Mod(i \div 2)
         IN IF i % 2 = 0 THEN (h * h) % FieldModulus
            ELSE (2 * h * h) % FieldModulus

\* The powers of two of the 64 bit positions, modulo the field modulus.
Pow2Table == [i \in 0 .. 63 |-> Pow2Mod(i)]

\* The sum of 2^i over the one-bits i of a u64 whose power 2^i is at most
\* `v` modulo the field modulus: the bits are summed one residue at a time.
RECURSIVE BitsToField(_, _)
BitsToField(u64, v) ==
    IF v = 0 THEN 0
    ELSE (v * Cardinality({i \in u64 : Pow2Table[i] = v}) + BitsToField(u64, v - 1))
            % FieldModulus

\* A u64 as a field element.
U64ToField(u64) == BitsToField(u64, FieldModulus - 1)

Plaintext(v) == [kind |-> "Plaintext", v |-> v]
RecordValue(owner, gates, data, rnonce) ==
    [kind |-> "Record", owner |-> owner, gates |-> gates, data |-> data, nonce |-> rnonce]

\* `to_fields` of a value.
to_fields(value) ==
    IF value.kind = "Plaintext" THEN <<value.v>>
    ELSE <<to_x_coordinate(value.owner), U64ToField(value.gates), value.data,
           to_x_coordinate(value.nonce)>>

\* `Field::from_u16(index)`.
from_u16(index) == index % FieldModulus

\* `Record::to_commitment(program_id, record_name)`.
to_commitment(record, pid, record_name) ==
    hash_bhp1024(<<pid.name, pid.network, record_name>> \o to_fields(record))

\* `Record::serial_number_from_gamma(gamma, commitment)`.
serial_number_from_gamma(gamma, commitment) ==
    commit_bhp512(<<serial_number_domain, commitment>>,
                  hash_to_scalar_psd2(<<serial_number_domain, to_x_coordinate(gamma)>>))

\* `Record::tag(sk_tag, commitment)`.
tag(sk_tag, commitment) == hash_psd2(<<sk_tag, commitment>>)

\* `Plaintext::encrypt_symmetric(view_key)`: the fields of the ciphertext.
encrypt_symmetric(plaintext, view_key) ==
    <<(plaintext.v + hash_psd8(<<encryption_domain, view_key>>)) % FieldModulus>>

ValueType(vis, name) == [vis |-> vis, name |-> name]

(***************************************************************************)
(* Account keys.                                                            *)
(***************************************************************************)
ComputeKey(pk_sig, pr_sig) == [pk_sig |-> pk_sig, pr_sig |-> pr_sig]

\* `ComputeKey::try_from(private_key)`.
ComputeKeyOf(sk) == ComputeKey(g_scalar_multiply(sk.sk_sig), g_scalar_multiply(sk.r_sig))

sk_prf(ck) == hash_to_scalar_psd4(<<to_x_coordinate(ck.pk_sig), to_x_coordinate(ck.pr_sig)>>)

\* `Address::try_from(compute_key)` and the circuit's `compute_key.to_address()`.
to_address(ck) == GroupAdd(GroupAdd(ck.pk_sig, ck.pr_sig), g_scalar_multiply(sk_prf(ck)))

\* `ViewKey::try_from(private_key)`.
ViewKeyOf(sk) == ScalarAdd(ScalarAdd(sk.sk_sig, sk.r_sig), sk_prf(ComputeKeyOf(sk)))

\* `GraphKey::try_from(view_key).sk_tag()`.
SkTagOf(view_key) == hash_psd4(<<graph_key_domain, ScalarToField(view_key), 0>>)

\* The function ID: `Hash(network_id, program_id, function_name)`.
FunctionID(network_id, pid, fname) == hash_bhp1024(<<network_id, pid.name, pid.network, fname>>)

(***************************************************************************)
(* Request::sign.                                                           *)
(***************************************************************************)
InputID(variant, hash) == [variant |-> variant, hash |-> hash]
RecordInputID(commitment, gamma, serial_number, rtag) ==
    [variant |-> "Record", commitment |-> commitment, gamma |-> gamma,
     serial_number |-> serial_number, tag |-> rtag]

\* An owner check that lets every record pass.
SignOwnerCheck_any(record, caller) == record.owner \in Groups

\* sign: "Ensure the record belongs to the caller."
SignOwnerCheck(record, caller) == record.owner = caller

\* A gates check of sign that looks at the bits from position 53 on only.
SignGatesCheck_from53(record) ==
    \A i \in 54 .. 64 : ~to_bits_le(record.gates)[i]

\* sign: "Ensure the record gates is less than or equal to 2^52": the bits
\* of the gates from position 52 on are all zero.
SignGatesCheck(record) ==
    \A i \in 53 .. 64 : ~to_bits_le(record.gates)[i]

\* One turn of the loop of sign over the inputs: [ok, id, message].
SignInput(index, input, input_type, c) ==
    LET idx == from_u16(index)
        Failed == [ok |-> FALSE]
    IN
    CASE input_type.vis \in {"Constant", "Public"} ->
            IF input.kind # "Plaintext" THEN Failed
            ELSE LET input_hash ==
                        hash_psd8(<<c.function_id>> \o to_fields(input) \o <<c.tcm, idx>>)
                 IN [ok |-> TRUE, id |-> InputID(input_type.vis, input_hash),
                     message |-> <<input_hash>>]
      [] input_type.vis = "Private" ->
            IF input.kind # "Plaintext" THEN Failed
            ELSE LET input_view_key == hash_psd4(<<c.function_id, c.tvk, idx>>)
                     ciphertext == encrypt_symmetric(input, input_view_key)
                     input_hash == hash_psd8(ciphertext)
                 IN [ok |-> TRUE, id |-> InputID("Private", input_hash),
                     message |-> <<input_hash>>]
      [] input_type.vis = "Record" ->
            IF input.kind # "Record" THEN Failed
            ELSE LET commitment == to_commitment(input, c.program_id, input_type.name)
                     h == hash_to_group_psd2(<<serial_number_domain, commitment>>)
                     h_r == GroupMul(h, c.r)
                     gamma == GroupMul(h, c.sk_sig)
                     serial_number == serial_number_from_gamma(gamma, commitment)
                     rtag == tag(c.sk_tag, commitment)
                 IN IF c.enforce /\ ~SignOwnerCheck(input, c.caller) THEN Failed
                    ELSE IF c.enforce /\ ~SignGatesCheck(input) THEN Failed
                    ELSE [ok |-> TRUE,
                          id |-> RecordInputID(commitment, gamma, serial_number, rtag),
                          message |-> <<to_x_coordinate(h), to_x_coordinate(h_r),
                                        to_x_coordinate(gamma), rtag>>]
      [] input_type.vis = "ExternalRecord" ->
            IF input.kind # "Record" THEN Failed
            ELSE LET input_hash ==
                        hash_psd8(<<c.function_id>> \o to_fields(input) \o <<c.tvk, idx>>)
                 IN [ok |-> TRUE, id |-> InputID("ExternalRecord", input_hash),
                     message |-> <<input_hash>>]

RECURSIVE Flatten(_)
Flatten(seqs) == IF seqs = <<>> THEN <<>> ELSE Head(seqs) \o Flatten(Tail(seqs))

\* The computation of Request::sign: [ok |-> FALSE] for an error, else
\* [ok |-> TRUE, request].  With `enforce` false it is the computation of a
\* signer that leaves out the checks of the owner and the gates of a record.
SignWith(sk, pid, fname, ins, types, rnd, enforce) ==
    IF Len(types) # Len(ins) THEN [ok |-> FALSE]
    ELSE
    LET sk_sig == sk.sk_sig
        view_key == ViewKeyOf(sk)
        sk_tag == SkTagOf(view_key)
        compute_key == ComputeKeyOf(sk)
        r == hash_to_scalar_psd4(<<serial_number_domain, ScalarToField(sk_sig), rnd>>)
        g_r == g_scalar_multiply(r)
        caller == to_address(compute_key)
        tvk == to_x_coordinate(GroupMul(caller, r))
        tcm == hash_psd2(<<tvk>>)
        function_id == FunctionID(NETWORK_ID, pid, fname)
        c == [function_id |-> function_id, program_id |-> pid, caller |-> caller,
              sk_sig |-> sk_sig, sk_tag |-> sk_tag, r |-> r, tvk |-> tvk, tcm |-> tcm,
              enforce |-> enforce]
        prepared == [i \in 1 .. Len(ins) |-> SignInput(i - 1, ins[i], types[i], c)]
        message == <<to_x_coordinate(g_r), to_x_coordinate(compute_key.pk_sig),
                     to_x_coordinate(compute_key.pr_sig), to_x_coordinate(caller),
                     tvk, tcm, function_id>>
                   \o Flatten([i \in 1 .. Len(ins) |-> prepared[i].message])
        challenge == hash_to_scalar_psd8(message)
        response == ScalarSub(r, ScalarMul(challenge, sk_sig))
    IN IF \E i \in 1 .. Len(ins) : ~prepared[i].ok THEN [ok |-> FALSE]
       ELSE [ok |-> TRUE, message |-> message,
             request |->
                [caller |-> caller, network_id |-> NETWORK_ID, program_id |-> pid,
                 function_name |-> fname,
                 input_ids |-> [i \in 1 .. Len(ins) |-> prepared[i].id],
                 inputs |-> ins,
                 signature |-> [challenge |-> challenge, response |-> response,
                                compute_key |-> compute_key],
                 sk_tag |-> sk_tag, tvk |-> tvk, tsk |-> r, tcm |-> tcm]]

\* Request::sign.
Sign(sk, pid, fname, ins, types, rnd) == SignWith(sk, pid, fname, ins, types, rnd, TRUE)

(***************************************************************************)
(* Request::verify (the circuit).  A check is "true", "false" or "halt".    *)
(***************************************************************************)
Bool(b) == IF b THEN "true" ELSE "false"

\* `Request::to_tpk`: (challenge * pk_sig) + (response * G).
to_tpk(req) ==
    GroupAdd(GroupMul(req.signature.compute_key.pk_sig, req.signature.challenge),
             g_scalar_multiply(req.signature.response))

\* A gates check that looks at the bits from position 53 on only.
VerifyGatesCheck_from53(record) ==
    ~(\E i \in 54 .. 64 : to_bits_le(record.gates)[i])

\* verify: "Ensure the record gates is less than or equal to 2^52": the OR
\* of the bits of the gates from position 52 on is false.
VerifyGatesCheck(record) ==
    ~(\E i \in 53 .. 64 : to_bits_le(record.gates)[i])

\* verify: "Ensure the record belongs to the caller."
VerifyOwnerCheck(record, caller) == record.owner = caller

\* An `h_r` that leaves out the product of the challenge and gamma.
to_h_r_response_only(gamma, h, signature) == GroupMul(h, signature.response)

\* check_input_ids: `h_r` as `(challenge * gamma) + (response * H)`.
to_h_r(gamma, h, signature) ==
    GroupAdd(GroupMul(gamma, signature.challenge), GroupMul(h, signature.response))

\* The name of a record whatever the declared type is.
record_name_of_any_type(input_type) == {input_type.name}

\* check_input_ids, the arm of a record: the set of the record name of the
\* declared type, empty (the circuit halts) when the type is not a record.
record_name(input_type) ==
    IF input_type.vis = "Record" THEN {input_type.name} ELSE {}

\* One turn of the map of check_input_ids: [check, message].
CheckInputID(index, input_id, input, input_type, req, function_id) ==
    LET input_index == from_u16(index)
        Halt == [check |-> "halt", message |-> <<>>]
    IN
    CASE input_id.variant \in {"Constant", "Public"} ->
            IF input.kind # "Plaintext" THEN Halt
            ELSE [check |-> Bool(input_id.hash =
                        hash_psd8(<<function_id>> \o to_fields(input)
                                  \o <<req.tcm, input_index>>)),
                  message |-> <<input_id.hash>>]
      [] input_id.variant = "Private" ->
            IF input.kind # "Plaintext" THEN Halt
            ELSE LET input_view_key == hash_psd4(<<function_id, req.tvk, input_index>>)
                     ciphertext == encrypt_symmetric(input, input_view_key)
                 IN [check |-> Bool(input_id.hash = hash_psd8(ciphertext)),
                     message |-> <<input_id.hash>>]
      [] input_id.variant = "Record" ->
            IF input.kind # "Record" THEN Halt
            ELSE IF record_name(input_type) = {} THEN Halt
            ELSE LET candidate_commitment ==
                        to_commitment(input, req.program_id, input_type.name)
                     candidate_serial_number ==
                        serial_number_from_gamma(input_id.gamma, candidate_commitment)
                     candidate_tag == tag(req.sk_tag, candidate_commitment)
                     h == hash_to_group_psd2(<<serial_number_domain, candidate_commitment>>)
                     h_r == to_h_r(input_id.gamma, h, req.signature)
                 IN [check |-> Bool(/\ input_id.serial_number = candidate_serial_number
                                    /\ input_id.commitment = candidate_commitment
                                    /\ input_id.tag = candidate_tag
                                    /\ VerifyOwnerCheck(input, req.caller)
                                    /\ VerifyGatesCheck(input)),
                     message |-> <<to_x_coordinate(h), to_x_coordinate(h_r),
                                   to_x_coordinate(input_id.gamma), candidate_tag>>]
      [] input_id.variant = "ExternalRecord" ->
            IF input.kind # "Record" THEN Halt
            ELSE [check |-> Bool(input_id.hash =
                        hash_psd8(<<function_id>> \o to_fields(input)
                                  \o <<req.tvk, input_index>>)),
                  message |-> <<input_id.hash>>]

\* check_input_ids with `zip` in place of `zip_eq`: the surplus input IDs,
\* inputs or input types are left out.
check_input_ids_zip(req, types) ==
    LET n == Min(Len(req.input_ids), Min(Len(req.inputs), Len(types)))
        function_id == FunctionID(req.network_id, req.program_id, req.function_name)
        checks == [i \in 1 .. n |->
                    CheckInputID(i - 1, req.input_ids[i], req.inputs[i], types[i],
                                 req, function_id)]
    IN IF \E i \in 1 .. n : checks[i].check = "halt"
       THEN [check |-> "halt", message |-> <<>>]
       ELSE [check |-> Bool(\A i \in 1 .. n : checks[i].check = "true"),
             message |-> Flatten([i \in 1 .. n |-> checks[i].message])]

\* Request::check_input_ids::<true>: [check, message]; `zip_eq` panics when
\* the input IDs, the inputs and the input types are not equally many.
check_input_ids(req, types) ==
    LET n == Len(req.input_ids)
        function_id == FunctionID(req.network_id, req.program_id, req.function_name)
    IN IF Len(req.inputs) # n \/ Len(types) # n
       THEN [check |-> "halt", message |-> <<>>]
       ELSE LET checks == [i \in 1 .. n |->
                    CheckInputID(i - 1, req.input_ids[i], req.inputs[i], types[i],
                                 req, function_id)]
            IN IF \E i \in 1 .. n : checks[i].check = "halt"
               THEN [check |-> "halt", message |-> <<>>]
               ELSE [check |-> Bool(\A i \in 1 .. n : checks[i].check = "true"),
                     message |-> Flatten([i \in 1 .. n |-> checks[i].message])]

\* tvk_checks that leave out the comparison of tpk with the tpk of the signature.
tvk_checks_without_to_tpk(req, tpk) ==
    LET candidate_tpk == g_scalar_multiply(req.tsk)
        tvk == to_x_coordinate(GroupMul(req.caller, req.tsk))
        tcm == hash_psd2(<<tvk>>)
    IN /\ tpk = candidate_tpk
       /\ tvk = req.tvk
       /\ tcm = req.tcm

\* tvk_checks of a verifier that has no tsk: tpk against the signature, and
\* tcm against the tvk the request carries.
tvk_checks_without_tsk(req, tpk) ==
    /\ tpk = to_tpk(req)
    /\ hash_psd2(<<req.tvk>>) = req.tcm

\* verify: the transition public key and transition view key are well-formed.
tvk_checks(req, tpk) ==
    LET candidate_tpk == g_scalar_multiply(req.tsk)
        tvk == to_x_coordinate(GroupMul(req.caller, req.tsk))
        tcm == hash_psd2(<<tvk>>)
    IN /\ tpk = candidate_tpk
       /\ tpk = to_tpk(req)
       /\ tvk = req.tvk
       /\ tcm = req.tcm

\* signature_checks whose challenge preimage leaves out tpk, pk_sig, pr_sig
\* and the caller.
signature_checks_message_only(req, tpk, message) ==
    /\ req.signature.challenge = hash_to_scalar_psd8(message)
    /\ req.caller = to_address(req.signature.compute_key)

\* verify: the challenge and the address of the signature are valid.
signature_checks(req, tpk, message) ==
    LET pk_sig == req.signature.compute_key.pk_sig
        pr_sig == req.signature.compute_key.pr_sig
        preimage == <<to_x_coordinate(tpk), to_x_coordinate(pk_sig),
                      to_x_coordinate(pr_sig), to_x_coordinate(req.caller)>> \o message
        candidate_challenge == hash_to_scalar_psd8(preimage)
        candidate_address == to_address(req.signature.compute_key)
    IN /\ req.signature.challenge = candidate_challenge
       /\ req.caller = candidate_address

\* verify: the preimage of the candidate challenge, the transcript the
\* verifier builds.
to_preimage(req, types, tpk) ==
    <<to_x_coordinate(tpk), to_x_coordinate(req.signature.compute_key.pk_sig),
      to_x_coordinate(req.signature.compute_key.pr_sig), to_x_coordinate(req.caller),
      req.tvk, req.tcm, FunctionID(req.network_id, req.program_id, req.function_name)>>
        \o check_input_ids(req, types).message

\* Request::verify(input_types, tpk): "true", "false" or "halt".
Verify(req, types, tpk) ==
    LET function_id == FunctionID(req.network_id, req.program_id, req.function_name)
        ids == check_input_ids(req, types)
        message == <<req.tvk, req.tcm, function_id>> \o ids.message
    IN IF ids.check = "halt" THEN "halt"
       ELSE Bool(/\ signature_checks(req, tpk, message)
                 /\ ids.check = "true"
                 /\ tvk_checks(req, tpk))

(***************************************************************************)
(* The Request scenario: sign once, alter at most one field of the request  *)
(* or of the arguments of verify, then verify.                              *)
(***************************************************************************)
PrivateKeys == {[sk_sig |-> 4, r_sig |-> 1], [sk_sig |-> 0, r_sig |-> 2]}
Nonces == {1, 4}
TokenProgram == [name |-> 1, network |-> 1]
Programs == {TokenProgram, [name |-> 2, network |-> 1]}
FunctionNames == {1, 2}
RecordNames == {1, 2}

\* 5, 2^52 - 1, 2^52, 2^52 + 1 and 2^63 gates.
GatesChoices == {{0, 2}, 0 .. 51, {52}, {0, 52}, {63}}

Visibilities == {"Constant", "Public", "Private", "Record", "ExternalRecord"}
ValueTypes == {ValueType(vis, 1) : vis \in Visibilities} \cup {ValueType("Record", 2)}

OtherAddress(caller) == GroupAdd(caller, 1)

Values(caller) ==
    {Plaintext(v) : v \in {1, 2}}
    \cup {RecordValue(o, g, 0, 0) : o \in {caller, OtherAddress(caller)}, g \in GatesChoices}

Choice(vis, value) == [type |-> ValueType(vis, 1), value |-> value]

\* The (declared type, input) pairs a caller hands to sign: the ones sign
\* accepts, and then also one for each way it refuses an input.
ValidInputChoices(caller) ==
    {Choice("Constant", Plaintext(1)), Choice("Public", Plaintext(2)),
     Choice("Private", Plaintext(1)),
     Choice("Record", RecordValue(caller, 0 .. 51, 0, 0)),
     Choice("ExternalRecord", RecordValue(OtherAddress(caller), {0, 2}, 0, 0))}

InputChoices(caller) ==
    ValidInputChoices(caller) \cup
    {Choice("Record", RecordValue(OtherAddress(caller), {0, 2}, 0, 0)),
     Choice("Record", RecordValue(caller, {52}, 0, 0)),
     Choice("Record", RecordValue(caller, {0, 52}, 0, 0)),
     Choice("Private", RecordValue(caller, {0, 2}, 0, 0)),
     Choice("Record", Plaintext(1)),
     Choice("ExternalRecord", Plaintext(1))}

EmptyRequest ==
    [caller |-> 0, network_id |-> NETWORK_ID, program_id |-> TokenProgram,
     function_name |-> 1, input_ids |-> <<>>, inputs |-> <<>>,
     signature |-> [challenge |-> 0, response |-> 0, compute_key |-> ComputeKey(0, 0)],
     sk_tag |-> 0, tvk |-> 0, tsk |-> 0, tcm |-> 0]

NotAltered == [field |-> "none", index |-> 0]

\* The sequences of declared types handed to sign with `n` inputs: as many,
\* one fewer or one more.
TypeLists(types) ==
    {types, types \o <<ValueType("Public", 1)>>}
    \cup (IF types = <<>> THEN {} ELSE {SubSeq(types, 1, Len(types) - 1)})

ReqInit ==
    /\ pc = "start"
    /\ private_key \in PrivateKeys
    /\ program_id = TokenProgram
    /\ function_name = 1
    /\ nonce \in Nonces
    /\ \E n \in 0 .. MaxInputs :
         \E cs \in [1 .. n -> InputChoices(to_address(ComputeKeyOf(private_key)))] :
            /\ inputs = [i \in 1 .. n |-> cs[i].value]
            /\ input_types \in TypeLists([i \in 1 .. n |-> cs[i].type])
    /\ request = EmptyRequest
    /\ signed = EmptyRequest
    /\ vtypes = <<>>
    /\ vtpk = 0
    /\ altered = NotAltered
    /\ sign_result = "none"
    /\ result = "none"
    /\ PuzzleIdle
    /\ StorageIdle
    /\ TransitionIdle
    /\ BytesIdle
    /\ DomainIdle

\* The caller signs; verify is then handed the declared types and tpk = tsk * G.
DoSign ==
    /\ pc = "start"
    /\ LET s == Sign(private_key, program_id, function_name, inputs, input_types, nonce)
       IN IF s.ok
          THEN /\ pc' = "signed"
               /\ request' = s.request
               /\ signed' = s.request
               /\ vtypes' = input_types
               /\ vtpk' = g_scalar_multiply(s.request.tsk)
               /\ sign_result' = "ok"
          ELSE /\ pc' = "sign_failed"
               /\ sign_result' = "error"
               /\ UNCHANGED <<request, signed, vtypes, vtpk>>
    /\ UNCHANGED <<private_key, program_id, function_name, inputs, input_types, nonce,
                   altered, result>>
    /\ UNCHANGED othersOfRequest

\* A signer that does not run sign: where sign refused the inputs for the
\* owner or the gates of a record, it computes the request all the same.
DoForge ==
    /\ pc = "sign_failed"
    /\ LET s == SignWith(private_key, program_id, function_name, inputs, input_types,
                         nonce, FALSE)
       IN /\ s.ok
          /\ request' = s.request
          /\ vtypes' = input_types
          /\ vtpk' = g_scalar_multiply(s.request.tsk)
    /\ altered' = [field |-> "forged", index |-> 0]
    /\ pc' = "altered"
    /\ UNCHANGED <<private_key, program_id, function_name, inputs, input_types, nonce,
                   signed, sign_result, result>>
    /\ UNCHANGED othersOfRequest

Alt(field, index, req) == [field |-> field, index |-> index, request |-> req]

\* The requests that differ from `req` in exactly one scalar, field or group member.
MemberAlterations(req) ==
    {Alt("caller", 0, [req EXCEPT !.caller = v]) : v \in Groups \ {req.caller}}
    \cup {Alt("program_id", 0, [req EXCEPT !.program_id = v]) :
            v \in Programs \ {req.program_id}}
    \cup {Alt("function_name", 0, [req EXCEPT !.function_name = v]) :
            v \in FunctionNames \ {req.function_name}}
    \cup {Alt("sk_tag", 0, [req EXCEPT !.sk_tag = v]) : v \in Fields \ {req.sk_tag}}
    \cup {Alt("tvk", 0, [req EXCEPT !.tvk = v]) : v \in Fields \ {req.tvk}}
    \cup {Alt("tcm", 0, [req EXCEPT !.tcm = v]) : v \in Fields \ {req.tcm}}
    \cup {Alt("tsk", 0, [req EXCEPT !.tsk = v]) : v \in Scalars \ {req.tsk}}
    \cup {Alt("challenge", 0, [req EXCEPT !.signature.challenge = v]) :
            v \in Scalars \ {req.signature.challenge}}
    \cup {Alt("response", 0, [req EXCEPT !.signature.response = v]) :
            v \in Scalars \ {req.signature.response}}
    \cup {Alt("pk_sig", 0, [req EXCEPT !.signature.compute_key.pk_sig = v]) :
            v \in Groups \ {req.signature.compute_key.pk_sig}}
    \cup {Alt("pr_sig", 0, [req EXCEPT !.signature.compute_key.pr_sig = v]) :
            v \in Groups \ {req.signature.compute_key.pr_sig}}

\* The input IDs that differ from `id` in exactly one member.
InputIDAlterations(id) ==
    IF id.variant = "Record"
    THEN {<<"commitment", [id EXCEPT !.commitment = v]>> : v \in Fields \ {id.commitment}}
         \cup {<<"gamma", [id EXCEPT !.gamma = v]>> : v \in Groups \ {id.gamma}}
         \cup {<<"serial_number", [id EXCEPT !.serial_number = v]>> :
                 v \in Fields \ {id.serial_number}}
         \cup {<<"tag", [id EXCEPT !.tag = v]>> : v \in Fields \ {id.tag}}
         \cup {<<"variant", InputID(v, id.commitment)>> :
                 v \in {"Constant", "ExternalRecord"}}
    ELSE {<<"hash", [id EXCEPT !.hash = v]>> : v \in Fields \ {id.hash}}
         \cup {<<"variant", InputID(v, id.hash)>> :
                 v \in {"Constant", "Public", "Private", "ExternalRecord"} \ {id.variant}}
         \cup {<<"variant", RecordInputID(id.hash, 0, id.hash, id.hash)>>}

\* One member of the request is replaced by a different value.
AlterMember ==
    /\ pc = "signed"
    /\ \E a \in MemberAlterations(request) :
         /\ request' = a.request
         /\ altered' = [field |-> a.field, index |-> a.index]
    /\ pc' = "altered"
    /\ UNCHANGED <<private_key, program_id, function_name, inputs, input_types, nonce,
                   signed, vtypes, vtpk, sign_result, result>>
    /\ UNCHANGED othersOfRequest

\* One member of one input ID of the request is replaced.
AlterInputID ==
    /\ pc = "signed"
    /\ \E i \in 1 .. Len(request.input_ids) :
         \E a \in InputIDAlterations(request.input_ids[i]) :
            /\ request' = [request EXCEPT !.input_ids[i] = a[2]]
            /\ altered' = [field |-> a[1], index |-> i]
    /\ pc' = "altered"
    /\ UNCHANGED <<private_key, program_id, function_name, inputs, input_types, nonce,
                   signed, vtypes, vtpk, sign_result, result>>
    /\ UNCHANGED othersOfRequest

\* One input value of the request is replaced.
AlterInput ==
    /\ pc = "signed"
    /\ \E i \in 1 .. Len(request.inputs) :
         \E v \in Values(request.caller) \ {request.inputs[i]} :
            /\ request' = [request EXCEPT !.inputs[i] = v]
            /\ altered' = [field |-> "input", index |-> i]
    /\ pc' = "altered"
    /\ UNCHANGED <<private_key, program_id, function_name, inputs, input_types, nonce,
                   signed, vtypes, vtpk, sign_result, result>>
    /\ UNCHANGED othersOfRequest

\* verify is handed other input types than sign was: one type replaced, the
\* last one dropped, or one more.
AlterTypes ==
    /\ pc = "signed"
    /\ \/ \E i \in 1 .. Len(vtypes) : \E t \in ValueTypes \ {vtypes[i]} :
            /\ vtypes' = [vtypes EXCEPT ![i] = t]
            /\ altered' = [field |-> "input_type", index |-> i]
       \/ /\ vtypes' \in TypeLists(vtypes) \ {vtypes}
          /\ altered' = [field |-> "input_types_len", index |-> 0]
    /\ pc' = "altered"
    /\ UNCHANGED <<private_key, program_id, function_name, inputs, input_types, nonce,
                   request, signed, vtpk, sign_result, result>>
    /\ UNCHANGED othersOfRequest

\* verify is handed another tpk than tsk * G.
AlterTpk ==
    /\ pc = "signed"
    /\ vtpk' \in Groups \ {vtpk}
    /\ altered' = [field |-> "tpk", index |-> 0]
    /\ pc' = "altered"
    /\ UNCHANGED <<private_key, program_id, function_name, inputs, input_types, nonce,
                   request, signed, vtypes, sign_result, result>>
    /\ UNCHANGED othersOfRequest

DoVerify ==
    /\ pc \in {"signed", "altered"}
    /\ result' = Verify(request, vtypes, vtpk)
    /\ pc' = "verified"
    /\ UNCHANGED <<private_key, program_id, function_name, inputs, input_types, nonce,
                   request, signed, vtypes, vtpk, altered, sign_result>>
    /\ UNCHANGED othersOfRequest

ReqNext ==
    \/ DoSign
    \/ DoForge
    \/ AlterMember
    \/ AlterInputID
    \/ AlterInput
    \/ AlterTypes
    \/ AlterTpk
    \/ DoVerify

SpecRequest == ReqInit /\ [][ReqNext]_vars

(***************************************************************************)
(* Claims about Request::sign and Request::verify.                          *)
(***************************************************************************)
Caller == to_address(ComputeKeyOf(private_key))

\* The inputs fit their declared types: as many inputs as types, a plaintext
\* for a constant, public or private input, a record for a record or external
\* record input, and every record input owned by the signer with gates
\* below 2^52.
ValidInputs ==
    /\ Len(inputs) = Len(input_types)
    /\ \A i \in 1 .. Len(inputs) :
         /\ input_types[i].vis \in {"Constant", "Public", "Private"}
                => inputs[i].kind = "Plaintext"
         /\ input_types[i].vis \in {"Record", "ExternalRecord"}
                => inputs[i].kind = "Record"
         /\ input_types[i].vis = "Record"
                => /\ inputs[i].owner = Caller
                   /\ inputs[i].gates \subseteq 0 .. 51

\* C1: for valid inputs sign succeeds, and verify of the request it returns,
\* with the same input types and tpk = tsk * G, returns true.
C1_RoundTrip ==
    /\ (sign_result # "none" /\ ValidInputs => sign_result = "ok")
    /\ (pc = "verified" /\ altered = NotAltered
            => /\ ValidInputs
               /\ request = signed
               /\ vtypes = input_types
               /\ vtpk = g_scalar_multiply(request.tsk)
               /\ result = "true")

C1_Witness ==
    /\ pc = "verified"
    /\ altered = NotAltered
    /\ result = "true"
    /\ Len(inputs) = 2
    /\ \E i \in 1 .. Len(inputs) : input_types[i].vis = "Record"
    /\ \E i \in 1 .. Len(inputs) : input_types[i].vis = "Private"

\* The members of a request that C2 speaks of: tcm, tvk, the hash of an input
\* ID (for a record input ID its commitment, serial number and tag), and the
\* challenge and the response of the signature.
TamperedFields ==
    {"tcm", "tvk", "hash", "commitment", "serial_number", "tag", "challenge", "response"}

\* C2: a request from sign with exactly one of tcm, tvk, an input ID hash,
\* the challenge or the response changed to another value fails verify.
C2_TamperSensitivity ==
    pc = "verified" /\ altered.field \in TamperedFields => result = "false"

C2_Witness ==
    /\ pc = "verified"
    /\ altered.field = "response"
    /\ \A i \in 1 .. Len(request.input_ids) : request.input_ids[i].variant # "Record"
    /\ Len(request.input_ids) > 0
    /\ result = "false"

\* C7 as stated: verify does not depend on tsk, so requests that differ in
\* tsk alone get the same answer.
C7_TskIgnored ==
    pc = "verified"
        => \A t \in Scalars :
              Verify([request EXCEPT !.tsk = t], vtypes, vtpk) = result

\* C7 amended: verify recomputes tpk as tsk * G from the tsk of the request,
\* so of the requests that differ in tsk alone at most one verifies for a tpk,
\* and a signed request whose tsk is changed fails verify.
C7_TskChecked ==
    pc = "verified"
        => /\ (result = "true"
                 => \A t \in Scalars \ {request.tsk} :
                       Verify([request EXCEPT !.tsk = t], vtypes, vtpk) # "true")
           /\ (altered.field = "tsk" => result = "false")

C7_Witness ==
    /\ pc = "verified"
    /\ altered.field = "tsk"
    /\ result = "false"
    /\ Verify(signed, vtypes, vtpk) = "true"

\* A record input, declared as a record, whose gates are exactly 2^52.
GatesAtBound(ins, types) ==
    \E i \in 1 .. Len(ins) :
        /\ i <= Len(types)
        /\ types[i].vis = "Record"
        /\ ins[i].kind = "Record"
        /\ ins[i].gates = {52}

\* C8: with a record input whose gates are exactly 2^52, sign returns an
\* error, and verify of a request that carries the record returns false.
C8_GatesBound ==
    /\ (sign_result # "none" /\ GatesAtBound(inputs, input_types)
            => sign_result = "error")
    /\ (pc = "verified" /\ altered.field \in {"forged", "input"}
            /\ GatesAtBound(request.inputs, vtypes)
            => result = "false")

\* sign refused the record; the request a signer computed without the check
\* matches its input IDs in everything but the gates, and verify refuses it.
C8_Witness ==
    /\ pc = "verified"
    /\ sign_result = "error"
    /\ altered.field = "forged"
    /\ Len(request.inputs) = 1
    /\ GatesAtBound(request.inputs, vtypes)
    /\ request.inputs[1].owner = request.caller
    /\ request.input_ids[1].commitment
         = to_commitment(request.inputs[1], request.program_id, vtypes[1].name)
    /\ result = "false"

\* A record input, declared as a record, that the signer does not own.
ForeignRecord ==
    \E i \in 1 .. Len(inputs) :
        /\ i <= Len(input_types)
        /\ input_types[i].vis = "Record"
        /\ inputs[i].kind = "Record"
        /\ inputs[i].owner # Caller

\* C9: with a record input owned by another address than the signer's, sign
\* returns an error and no request.
C9_OwnerBinding ==
    sign_result # "none" /\ ForeignRecord
        => /\ sign_result = "error"
           /\ signed = EmptyRequest

C9_Witness ==
    /\ sign_result = "error"
    /\ Len(inputs) = 1
    /\ Len(input_types) = 1
    /\ ForeignRecord
    /\ inputs[1].gates = {0, 2}

\* The value of an input does not fit the variant of its input ID, or a
\* record input ID comes with a declared type that is no record.
KindMismatch(req, types) ==
    \E i \in 1 .. Len(req.input_ids) :
        /\ i <= Len(req.inputs)
        /\ i <= Len(types)
        /\ \/ /\ req.input_ids[i].variant \in {"Constant", "Public", "Private"}
              /\ req.inputs[i].kind # "Plaintext"
           \/ /\ req.input_ids[i].variant \in {"Record", "ExternalRecord"}
              /\ req.inputs[i].kind # "Record"
           \/ /\ req.input_ids[i].variant = "Record"
              /\ types[i].vis # "Record"

\* The input IDs, the inputs and the declared types are not equally many.
CountMismatch(req, types) ==
    Len(req.inputs) # Len(req.input_ids) \/ Len(types) # Len(req.input_ids)

\* Some recomputed value differs from the one the request carries.
ValueMismatch(req, types, tpk) ==
    LET ids == check_input_ids(req, types)
        function_id == FunctionID(req.network_id, req.program_id, req.function_name)
    IN \/ ids.check = "false"
       \/ ~tvk_checks(req, tpk)
       \/ ~signature_checks(req, tpk, <<req.tvk, req.tcm, function_id>> \o ids.message)

\* C10 as stated: verify halts exactly on a mismatch of kinds, and returns
\* false on every other mismatch.
C10_HaltsOnKindsOnly ==
    pc = "verified"
        => /\ (result = "halt" <=> KindMismatch(request, vtypes))
           /\ result \in {"true", "false", "halt"}
           /\ (result = "true" => ~ValueMismatch(request, vtypes, vtpk))

\* C10 amended: verify halts exactly when the kinds do not fit or the input
\* IDs, inputs and declared types are not equally many; with neither, it
\* returns false whenever a recomputed value differs from the carried one.
C10_HaltsOnStructureOnly ==
    pc = "verified"
        => /\ (result = "halt"
                 <=> KindMismatch(request, vtypes) \/ CountMismatch(request, vtypes))
           /\ result \in {"true", "false", "halt"}
           /\ (result = "true" => ~ValueMismatch(request, vtypes, vtpk))

C10_Witness ==
    /\ pc = "verified"
    /\ altered.field = "input_types_len"
    /\ ~KindMismatch(request, vtypes)
    /\ result = "halt"

\* What Request::sign returns for the inputs of the scenario.
Signing == Sign(private_key, program_id, function_name, inputs, input_types, nonce)

\* The request is the one sign returned, and the types are the signed ones.
SignedBySign ==
    /\ pc = "signed"
    /\ Signing.ok
    /\ request = Signing.request
    /\ vtypes = input_types

\* The generator `H` of the record input `i` of a request.
RecordGenerator(req, types, i) ==
    hash_to_group_psd2(<<serial_number_domain,
                         to_commitment(req.inputs[i], req.program_id, types[i].name)>>)

\* C23: for a request that sign returned, the `h_r` the verifier computes
\* for a record input is r * H, the transcript the verifier builds is the one
\* the signer hashed, and its hash is the challenge of the signature.
C23_TranscriptAgrees ==
    SignedBySign
        => /\ \A i \in 1 .. Len(request.input_ids) :
                request.input_ids[i].variant = "Record"
                    => to_h_r(request.input_ids[i].gamma,
                              RecordGenerator(request, vtypes, i), request.signature)
                         = GroupMul(RecordGenerator(request, vtypes, i), request.tsk)
           /\ to_preimage(request, vtypes, vtpk) = Signing.message
           /\ hash_to_scalar_psd8(to_preimage(request, vtypes, vtpk))
                = request.signature.challenge

\* sign returned a request with a record input whose generator is not the
\* identity, for a challenge and a secret key that are not zero.
C23_Witness ==
    /\ SignedBySign
    /\ request.signature.challenge # 0
    /\ private_key.sk_sig # 0
    /\ \E i \in 1 .. Len(request.input_ids) :
            /\ request.input_ids[i].variant = "Record"
            /\ RecordGenerator(request, vtypes, i) # 0

\* The gates of the inputs declared as records.
RecordGates ==
    {inputs[i].gates : i \in {j \in 1 .. Min(Len(inputs), Len(input_types)) :
                                input_types[j].vis = "Record" /\ inputs[j].kind = "Record"}}

\* sign accepts the inputs when it leaves out the check of the gates: a
\* signer that makes no check of a record returns a request, and every record
\* declared as a record belongs to the signer.
AcceptedButForGates ==
    /\ SignWith(private_key, program_id, function_name, inputs, input_types, nonce,
                FALSE).ok
    /\ \A i \in 1 .. Len(inputs) :
            input_types[i].vis = "Record" => inputs[i].owner = Caller

\* A u64, the set of the positions of its one-bits, is at most 2^52, and is
\* less than 2^52.
AtMost2Pow52(u64) == (\A bit \in u64 : bit <= 52) /\ (52 \in u64 => u64 = {52})
Below2Pow52(u64) == \A bit \in u64 : bit < 52

\* The request handed to verify is the one of the signer, who made the
\* checks of sign or left them out.
VerifiedAsSigned == pc = "verified" /\ altered.field \in {"none", "forged"}

\* C24 as the claim states it: the checks of the gates in sign and in verify
\* accept the gates up to 2^52, 2^52 included, and no others.
C24_AcceptsUpTo2Pow52 ==
    /\ sign_result # "none" /\ AcceptedButForGates
            => (sign_result = "ok" <=> \A gates \in RecordGates : AtMost2Pow52(gates))
    /\ VerifiedAsSigned /\ AcceptedButForGates
            => (result = "true" <=> \A gates \in RecordGates : AtMost2Pow52(gates))

\* The checks of the gates as sign and verify make them (C24): they accept
\* the gates below 2^52 and no others, and the gates 2^52 are refused as each
\* greater value is.
C24_AcceptsBelow2Pow52 ==
    /\ sign_result # "none" /\ AcceptedButForGates
            => (sign_result = "ok" <=> \A gates \in RecordGates : Below2Pow52(gates))
    /\ VerifiedAsSigned /\ AcceptedButForGates
            => (result = "true" <=> \A gates \in RecordGates : Below2Pow52(gates))

\* A record with 2^52 - 1 gates was signed and verified.
C24_Witness ==
    /\ pc = "verified"
    /\ altered = NotAltered
    /\ sign_result = "ok"
    /\ result = "true"
    /\ (0 .. 51) \in RecordGates

\* The variant of each input ID of the request is the visibility of the
\* type verify was handed at its index.
VariantsAsDeclared ==
    /\ Len(request.input_ids) = Len(vtypes)
    /\ \A i \in 1 .. Len(vtypes) : request.input_ids[i].variant = vtypes[i].vis

\* C27 as the claim states it: when verify returns true, the variant of
\* each input ID is the visibility declared by the input type at its index.
C27_VariantsAsDeclared ==
    pc = "verified" /\ result = "true" => VariantsAsDeclared

\* C27: when verify returns true, there are as many input IDs as input
\* types and each record input ID is declared a record; and the variants
\* are the declared visibilities when verify is handed the request and the
\* input types of sign.
C27_RecordsAsDeclared ==
    pc = "verified" /\ result = "true"
        => /\ Len(request.input_ids) = Len(vtypes)
           /\ \A i \in 1 .. Len(vtypes) :
                 request.input_ids[i].variant = "Record" => vtypes[i].vis = "Record"
           /\ altered = NotAltered /\ sign_result = "ok" => VariantsAsDeclared

\* verify returned true for the request of sign with a record input and a
\* plaintext input, handed the input types of sign.
C27_Witness ==
    /\ pc = "verified"
    /\ result = "true"
    /\ altered = NotAltered
    /\ sign_result = "ok"
    /\ VariantsAsDeclared
    /\ \E i \in 1 .. Len(vtypes) : vtypes[i].vis = "Record"
    /\ \E i \in 1 .. Len(vtypes) : vtypes[i].vis \in {"Constant", "Public", "Private"}

(***************************************************************************)
(* The coinbase puzzle.  Polynomials over the field are sequences of        *)
(* coefficients, lowest degree first.  The KZG commitment to f is the group *)
(* element f(beta) * G for the secret beta of the SRS, represented by the   *)
(* field element f(beta); committing to the evaluations of f over the       *)
(* product domain with the Lagrange basis gives the same group element.     *)
(***************************************************************************)
MaxSolutions == 3

MAX_PROVER_SOLUTIONS == 2

\* `u64::MAX`, scaled to four bits.
U64_MAX == 15

\* The secret of the structured reference string.
Beta == 3

RECURSIVE PolyEval(_, _)
PolyEval(f, x) ==
    IF f = <<>> THEN 0 ELSE (Head(f) + x * PolyEval(Tail(f), x)) % FieldModulus

RECURSIVE SumTo(_, _)
SumTo(term, n) == IF n = 0 THEN 0 ELSE (term[n] + SumTo(term, n - 1)) % FieldModulus

\* The product of two polynomials.
PolyMul(f, g) ==
    IF f = <<>> \/ g = <<>> THEN <<>>
    ELSE [k \in 1 .. (Len(f) + Len(g) - 1) |->
            SumTo([i \in 1 .. Len(f) |->
                     IF k + 1 - i \in 1 .. Len(g) THEN f[i] * g[k + 1 - i] ELSE 0],
                  Len(f))]

PolyScale(f, c) == [i \in 1 .. Len(f) |-> (f[i] * c) % FieldModulus]

PolyAdd(f, g) ==
    [i \in 1 .. (IF Len(f) > Len(g) THEN Len(f) ELSE Len(g)) |->
        ((IF i <= Len(f) THEN f[i] ELSE 0) + (IF i <= Len(g) THEN g[i] ELSE 0))
            % FieldModulus]

\* The quotient of f(X) - f(z) by X - z, highest coefficient first.
RECURSIVE WitnessHighFirst(_, _)
WitnessHighFirst(f, z) ==
    IF Len(f) <= 1 THEN <<>>
    ELSE LET rest == WitnessHighFirst(Tail(f), z)
             carry == IF rest = <<>> THEN 0 ELSE rest[Len(rest)]
         IN IF Len(f) = 2 THEN <<f[2] % FieldModulus>>
            ELSE Append(rest, (f[2] + z * carry) % FieldModulus)

Reverse(q) == [i \in 1 .. Len(q) |-> q[Len(q) + 1 - i]]

\* `hash_to_polynomial(input, degree)`: degree + 1 coefficients.
hash_to_polynomial(input, degree) ==
    [i \in 1 .. (degree + 1) |-> Absorb(31, input \o <<i>>) % FieldModulus]

\* `EpochChallenge::new(epoch_number, epoch_block_hash, degree)`.
EpochChallenge(epoch_number, epoch_block_hash, degree) ==
    [epoch_number |-> epoch_number, epoch_block_hash |-> epoch_block_hash,
     epoch_polynomial |-> hash_to_polynomial(<<epoch_number, epoch_block_hash>>, degree)]

epoch_degree(epoch) == Len(epoch.epoch_polynomial) - 1

\* `KZG10::commit_lagrange`, for the evaluations of f: no hiding.
commit_lagrange(f) == PolyEval(f, Beta)

\* `KZG10::open_lagrange`, for the evaluations of f: the commitment to the
\* quotient of f(X) - f(point) by X - point, with no hiding randomness.
open_lagrange(f, point) ==
    [w |-> PolyEval(Reverse(WitnessHighFirst(f, point)), Beta), hiding |-> FALSE]

is_hiding(proof) == proof.hiding

\* `KZG10::check`: e(C - v G, H) = e(w, beta H - z H), on the exponents.
KZG10_check(commitment, point, value, proof) ==
    (commitment + FieldModulus - value) % FieldModulus
        = (proof.w * (Beta + FieldModulus - point)) % FieldModulus

\* An `Option<u64>`: the set of its values.
None == {}
Some(value) == {value}

PartialSolution(address, pnonce, commitment) ==
    [address |-> address, nonce |-> pnonce, commitment |-> commitment]

ProverSolution(partial_solution, proof) ==
    [partial_solution |-> partial_solution, proof |-> proof]

CoinbaseSolution(partial_solutions, proof) ==
    [partial_solutions |-> partial_solutions, proof |-> proof]

\* `PartialSolution::to_target`: u64::MAX divided by the hash of the commitment.
to_target(partial_solution) ==
    LET hash_to_u64 == Absorb(32, <<partial_solution.commitment>>) % 8
    IN IF hash_to_u64 = 0 THEN U64_MAX ELSE U64_MAX \div hash_to_u64

\* `hash_commitment`: the evaluation point of one prover solution.
hash_commitment(commitment) == Absorb(33, <<commitment>>) % FieldModulus

\* `hash_commitments`: one challenge for each commitment, and one more.
hash_commitments(commitments) ==
    [i \in 1 .. (Len(commitments) + 1) |-> Absorb(34, commitments \o <<i>>) % FieldModulus]

\* `ProverSolution::nonce1`.
nonce1(solution) == solution.partial_solution.nonce

has_duplicates(list) ==
    \E i, j \in 1 .. Len(list) : i < j /\ list[i] = list[j]

\* CoinbasePuzzle::prover_polynomial.
prover_polynomial(epoch, address, pnonce) ==
    hash_to_polynomial(<<epoch.epoch_number, epoch.epoch_block_hash, address, pnonce>>,
                       epoch_degree(epoch))

\* `PartialSolution::to_prover_polynomial` and `ProverSolution::to_prover_polynomial`.
to_prover_polynomial(partial_solution, epoch) ==
    prover_polynomial(epoch, partial_solution.address, partial_solution.nonce)

PuzzleError(message) == [ok |-> FALSE, error |-> message]

\* CoinbasePuzzle::prove: [ok |-> FALSE, error] or [ok |-> TRUE, solution].
\* `minimum_proof_target` is an option: None, or Some(target).
prove(epoch, address, pnonce, minimum_proof_target) ==
    LET polynomial == prover_polynomial(epoch, address, pnonce)
        product == PolyMul(polynomial, epoch.epoch_polynomial)
        commitment == commit_lagrange(product)
        partial_solution == PartialSolution(address, pnonce, commitment)
        point == hash_commitment(commitment)
        proof == open_lagrange(product, point)
    IN IF \E minimum_target \in minimum_proof_target :
                to_target(partial_solution) < minimum_target
       THEN PuzzleError("Prover solution was below the necessary proof target")
       ELSE IF is_hiding(proof)
       THEN PuzzleError("The prover solution must contain a non-hiding proof")
       ELSE [ok |-> TRUE, solution |-> ProverSolution(partial_solution, proof)]

\* A map that keeps every prover solution, the hiding ones with the others.
filter_map_keeping_hiding(prover_solutions) ==
    [i \in 1 .. Len(prover_solutions) |->
        [address |-> prover_solutions[i].partial_solution.address,
         nonce |-> prover_solutions[i].partial_solution.nonce,
         commitment |-> prover_solutions[i].partial_solution.commitment]]

\* The prover solutions accumulate_unchecked keeps: the non-hiding ones.
RECURSIVE filter_map(_)
filter_map(prover_solutions) ==
    IF prover_solutions = <<>> THEN <<>>
    ELSE LET solution == Head(prover_solutions)
         IN IF is_hiding(solution.proof) THEN filter_map(Tail(prover_solutions))
            ELSE <<PartialSolution(solution.partial_solution.address, nonce1(solution),
                                   solution.partial_solution.commitment)>>
                 \o filter_map(Tail(prover_solutions))

\* The sum of challenge_i * polynomial_i.
RECURSIVE accumulate(_, _, _)
accumulate(polynomials, challenges, n) ==
    IF n = 0 THEN <<>>
    ELSE PolyAdd(accumulate(polynomials, challenges, n - 1),
                 PolyScale(polynomials[n], challenges[n]))

\* accumulate_unchecked with the checks named in `skipped` left out.
accumulate_unchecked_skipping(epoch, prover_solutions, skipped) ==
    IF prover_solutions = <<>>
    THEN PuzzleError("Cannot accumulate an empty list of prover solutions.")
    ELSE IF "limit" \notin skipped /\ Len(prover_solutions) > MAX_PROVER_SOLUTIONS
    THEN PuzzleError("Cannot accumulate beyond MAX_PROVER_SOLUTIONS prover solutions")
    ELSE IF "duplicates" \notin skipped /\ has_duplicates(prover_solutions)
    THEN PuzzleError("Cannot accumulate duplicate prover solutions")
    ELSE
    LET partial_solutions == filter_map(prover_solutions)
        n == Len(partial_solutions)
        prover_polynomials ==
            [i \in 1 .. n |-> to_prover_polynomial(partial_solutions[i], epoch)]
        challenges == hash_commitments([i \in 1 .. n |-> partial_solutions[i].commitment])
        accumulator_point == challenges[n + 1]
        accumulated_prover_polynomial == accumulate(prover_polynomials, challenges, n)
        product == PolyMul(accumulated_prover_polynomial, epoch.epoch_polynomial)
        proof == open_lagrange(product, accumulator_point)
    IN IF is_hiding(proof) THEN PuzzleError("The coinbase proof must be non-hiding")
       ELSE [ok |-> TRUE, solution |-> CoinbaseSolution(partial_solutions, proof)]

\* accumulate_unchecked that accepts a list holding one prover solution twice.
accumulate_unchecked_without_duplicates(epoch, prover_solutions) ==
    accumulate_unchecked_skipping(epoch, prover_solutions, {"duplicates"})

\* accumulate_unchecked that accepts more than MAX_PROVER_SOLUTIONS solutions.
accumulate_unchecked_without_limit(epoch, prover_solutions) ==
    accumulate_unchecked_skipping(epoch, prover_solutions, {"limit"})

\* CoinbasePuzzle::accumulate_unchecked.
accumulate_unchecked(epoch, prover_solutions) ==
    IF prover_solutions = <<>>
    THEN PuzzleError("Cannot accumulate an empty list of prover solutions.")
    ELSE IF Len(prover_solutions) > MAX_PROVER_SOLUTIONS
    THEN PuzzleError("Cannot accumulate beyond MAX_PROVER_SOLUTIONS prover solutions")
    ELSE IF has_duplicates(prover_solutions)
    THEN PuzzleError("Cannot accumulate duplicate prover solutions")
    ELSE
    LET partial_solutions == filter_map(prover_solutions)
        n == Len(partial_solutions)
        prover_polynomials ==
            [i \in 1 .. n |-> to_prover_polynomial(partial_solutions[i], epoch)]
        challenges == hash_commitments([i \in 1 .. n |-> partial_solutions[i].commitment])
        accumulator_point == challenges[n + 1]
        accumulated_prover_polynomial == accumulate(prover_polynomials, challenges, n)
        product == PolyMul(accumulated_prover_polynomial, epoch.epoch_polynomial)
        proof == open_lagrange(product, accumulator_point)
    IN IF is_hiding(proof) THEN PuzzleError("The coinbase proof must be non-hiding")
       ELSE [ok |-> TRUE, solution |-> CoinbaseSolution(partial_solutions, proof)]

\* `CoinbaseSolution::to_cumulative_proof_target`: a u128 sum.
RECURSIVE to_cumulative_proof_target(_)
to_cumulative_proof_target(partial_solutions) ==
    IF partial_solutions = <<>> THEN 0
    ELSE to_target(Head(partial_solutions))
         + to_cumulative_proof_target(Tail(partial_solutions))

\* `VariableBase::msm`: the sum of challenge_i * commitment_i.
RECURSIVE msm(_, _, _)
msm(commitments, scalars, n) ==
    IF n = 0 THEN 0
    ELSE (msm(commitments, scalars, n - 1) + commitments[n] * scalars[n]) % FieldModulus

\* The sum of polynomial_i(point) * challenge_i.
RECURSIVE accumulator_sum(_, _, _, _)
accumulator_sum(polynomials, challenge_points, point, n) ==
    IF n = 0 THEN 0
    ELSE (accumulator_sum(polynomials, challenge_points, point, n - 1)
          + PolyEval(polynomials[n], point) * challenge_points[n]) % FieldModulus

\* verify with the checks named in `skipped` left out.
verify_skipping(coinbase_solution, epoch, coinbase_target, proof_target, skipped) ==
    LET partial_solutions == coinbase_solution.partial_solutions
        n == Len(partial_solutions)
        commitments == [i \in 1 .. n |-> partial_solutions[i].commitment]
    IN
    IF n = 0
    THEN PuzzleError("The coinbase solution does not contain any partial solutions")
    ELSE IF n > MAX_PROVER_SOLUTIONS
    THEN PuzzleError("The coinbase solution exceeds the allowed number of partial solutions.")
    ELSE IF is_hiding(coinbase_solution.proof)
    THEN PuzzleError("The coinbase proof must be non-hiding")
    ELSE IF "cumulative" \notin skipped
            /\ to_cumulative_proof_target(partial_solutions) < coinbase_target
    THEN PuzzleError("The coinbase proof does not meet the coinbase target")
    ELSE IF "duplicates" \notin skipped /\ has_duplicates(commitments)
    THEN PuzzleError("The coinbase solution contains duplicate puzzle commitments")
    ELSE IF "proof_target" \notin skipped
            /\ \E i \in 1 .. n : ~(to_target(partial_solutions[i]) >= proof_target)
    THEN PuzzleError("Prover puzzle does not meet the proof target requirements.")
    ELSE
    LET prover_polynomials ==
            [i \in 1 .. n |-> to_prover_polynomial(partial_solutions[i], epoch)]
        challenge_points == hash_commitments(commitments)
        accumulator_point == challenge_points[n + 1]
        accumulator_evaluation ==
            (accumulator_sum(prover_polynomials, challenge_points, accumulator_point, n)
             * PolyEval(epoch.epoch_polynomial, accumulator_point)) % FieldModulus
        accumulator_commitment == msm(commitments, challenge_points, n)
    IN [ok |-> TRUE,
        value |-> KZG10_check(accumulator_commitment, accumulator_point,
                              accumulator_evaluation, coinbase_solution.proof)]

\* verify that does not compare the cumulative target with the coinbase target.
verify_without_cumulative_target(coinbase_solution, epoch, coinbase_target, proof_target) ==
    verify_skipping(coinbase_solution, epoch, coinbase_target, proof_target, {"cumulative"})

\* verify that goes on with a partial solution below the proof target.
verify_without_proof_target(coinbase_solution, epoch, coinbase_target, proof_target) ==
    verify_skipping(coinbase_solution, epoch, coinbase_target, proof_target, {"proof_target"})

\* verify with the accumulator evaluation not scaled by the evaluation of the
\* epoch polynomial.
verify_without_epoch_polynomial(coinbase_solution, epoch, coinbase_target, proof_target) ==
    LET partial_solutions == coinbase_solution.partial_solutions
        n == Len(partial_solutions)
        commitments == [i \in 1 .. n |-> partial_solutions[i].commitment]
    IN
    IF n = 0
    THEN PuzzleError("The coinbase solution does not contain any partial solutions")
    ELSE IF n > MAX_PROVER_SOLUTIONS
    THEN PuzzleError("The coinbase solution exceeds the allowed number of partial solutions.")
    ELSE IF is_hiding(coinbase_solution.proof)
    THEN PuzzleError("The coinbase proof must be non-hiding")
    ELSE IF to_cumulative_proof_target(partial_solutions) < coinbase_target
    THEN PuzzleError("The coinbase proof does not meet the coinbase target")
    ELSE IF has_duplicates(commitments)
    THEN PuzzleError("The coinbase solution contains duplicate puzzle commitments")
    ELSE IF \E i \in 1 .. n : ~(to_target(partial_solutions[i]) >= proof_target)
    THEN PuzzleError("Prover puzzle does not meet the proof target requirements.")
    ELSE
    LET prover_polynomials ==
            [i \in 1 .. n |-> to_prover_polynomial(partial_solutions[i], epoch)]
        challenge_points == hash_commitments(commitments)
        accumulator_point == challenge_points[n + 1]
        accumulator_evaluation ==
            accumulator_sum(prover_polynomials, challenge_points, accumulator_point, n)
        accumulator_commitment == msm(commitments, challenge_points, n)
    IN [ok |-> TRUE,
        value |-> KZG10_check(accumulator_commitment, accumulator_point,
                              accumulator_evaluation, coinbase_solution.proof)]

\* CoinbasePuzzle::verify: [ok |-> FALSE, error] or [ok |-> TRUE, value].
verify(coinbase_solution, epoch, coinbase_target, proof_target) ==
    LET partial_solutions == coinbase_solution.partial_solutions
        n == Len(partial_solutions)
        commitments == [i \in 1 .. n |-> partial_solutions[i].commitment]
    IN
    IF n = 0
    THEN PuzzleError("The coinbase solution does not contain any partial solutions")
    ELSE IF n > MAX_PROVER_SOLUTIONS
    THEN PuzzleError("The coinbase solution exceeds the allowed number of partial solutions.")
    ELSE IF is_hiding(coinbase_solution.proof)
    THEN PuzzleError("The coinbase proof must be non-hiding")
    ELSE IF to_cumulative_proof_target(partial_solutions) < coinbase_target
    THEN PuzzleError("The coinbase proof does not meet the coinbase target")
    ELSE IF has_duplicates(commitments)
    THEN PuzzleError("The coinbase solution contains duplicate puzzle commitments")
    ELSE IF \E i \in 1 .. n : ~(to_target(partial_solutions[i]) >= proof_target)
    THEN PuzzleError("Prover puzzle does not meet the proof target requirements.")
    ELSE
    LET prover_polynomials ==
            [i \in 1 .. n |-> to_prover_polynomial(partial_solutions[i], epoch)]
        challenge_points == hash_commitments(commitments)
        accumulator_point == challenge_points[n + 1]
        accumulator_evaluation ==
            (accumulator_sum(prover_polynomials, challenge_points, accumulator_point, n)
             * PolyEval(epoch.epoch_polynomial, accumulator_point)) % FieldModulus
        accumulator_commitment == msm(commitments, challenge_points, n)
    IN [ok |-> TRUE,
        value |-> KZG10_check(accumulator_commitment, accumulator_point,
                              accumulator_evaluation, coinbase_solution.proof)]

(***************************************************************************)
(* The scenario of the puzzle: solutions are proved one by one, then         *)
(* accumulated, then the coinbase solution is verified.                      *)
(***************************************************************************)
Addresses == {1, 2}
PuzzleNonces == {0, 1}
Minimums == {None, Some(3)}
Targets == {2, 3, 8}
Epochs == {EpochChallenge(1, 5, 1), EpochChallenge(2, 6, 2)}

NoCoinbase == [status |-> "none"]
NoTargets == [coinbase_target |-> 0, proof_target |-> 0]

PuzzleInit ==
    /\ pc = "proving"
    /\ epoch_challenge \in Epochs
    /\ proved = <<>>
    /\ prove_result = "none"
    /\ coinbase = NoCoinbase
    /\ targets = NoTargets
    /\ puzzle_result = "none"
    /\ RequestIdle
    /\ StorageIdle
    /\ TransitionIdle
    /\ BytesIdle
    /\ DomainIdle

DoProve ==
    /\ pc = "proving"
    /\ Len(proved) < MaxSolutions
    /\ \E address \in Addresses, pnonce \in PuzzleNonces, minimum \in Minimums :
         LET p == prove(epoch_challenge, address, pnonce, minimum)
         IN IF p.ok
            THEN /\ proved' = Append(proved, [solution |-> p.solution, minimum |-> minimum,
                                              forged |-> FALSE])
                 /\ prove_result' = "ok"
            ELSE /\ prove_result' = "error"
                 /\ UNCHANGED proved
    /\ UNCHANGED <<pc, epoch_challenge, coinbase, targets, puzzle_result>>
    /\ UNCHANGED othersOfPuzzle

\* The prover solutions a submitter can make of a proved one without proving
\* again: another opening proof, a hiding proof, or another nonce, each with
\* the commitment of the proved solution.
ForgedSolutions(solution) ==
    {[solution EXCEPT !.proof.w = (@ + 1) % FieldModulus],
     [solution EXCEPT !.proof.hiding = TRUE],
     [solution EXCEPT !.partial_solution.nonce = 1 - @]}

\* A prover solution that prove did not return is submitted for accumulation.
DoSubmitForged ==
    /\ pc = "proving"
    /\ Len(proved) < MaxSolutions
    /\ \E i \in 1 .. Len(proved) :
         /\ ~proved[i].forged
         /\ \E forged_solution \in ForgedSolutions(proved[i].solution) :
              proved' = Append(proved, [solution |-> forged_solution,
                                        minimum |-> proved[i].minimum,
                                        forged |-> TRUE])
    /\ UNCHANGED <<pc, epoch_challenge, prove_result, coinbase, targets, puzzle_result>>
    /\ UNCHANGED othersOfPuzzle

DoAccumulate ==
    /\ pc = "proving"
    /\ LET a == accumulate_unchecked(epoch_challenge,
                                     [i \in 1 .. Len(proved) |-> proved[i].solution])
       IN IF a.ok
          THEN /\ coinbase' = [status |-> "ok", solution |-> a.solution]
               /\ pc' = "accumulated"
          ELSE /\ coinbase' = [status |-> "error", error |-> a.error]
               /\ pc' = "accumulate_failed"
    /\ UNCHANGED <<epoch_challenge, proved, prove_result, targets, puzzle_result>>
    /\ UNCHANGED othersOfPuzzle

DoPuzzleVerify ==
    /\ pc = "accumulated"
    /\ \E coinbase_target \in Targets, proof_target \in Targets :
         LET v == verify(coinbase.solution, epoch_challenge, coinbase_target, proof_target)
         IN /\ targets' = [coinbase_target |-> coinbase_target,
                           proof_target |-> proof_target]
            /\ puzzle_result' = IF v.ok THEN Bool(v.value) ELSE v.error
    /\ pc' = "puzzle_verified"
    /\ UNCHANGED <<epoch_challenge, proved, prove_result, coinbase>>
    /\ UNCHANGED othersOfPuzzle

PuzzleNext ==
    \/ DoProve
    \/ DoSubmitForged
    \/ DoAccumulate
    \/ DoPuzzleVerify

SpecPuzzle == PuzzleInit /\ [][PuzzleNext]_vars

\* C3: a coinbase solution accumulated from the one solution that prove
\* returned for the minimum target m is accumulated without error, and
\* verify with the coinbase target m and the proof target m returns Ok(true).
C3_Completeness ==
    /\ (pc \in {"accumulated", "accumulate_failed", "puzzle_verified"} /\ Len(proved) = 1
            /\ ~proved[1].forged
            => coinbase.status = "ok")
    /\ (pc = "puzzle_verified" /\ Len(proved) = 1
            /\ ~proved[1].forged
            /\ proved[1].minimum = Some(targets.coinbase_target)
            /\ proved[1].minimum = Some(targets.proof_target)
            => puzzle_result = "true")

C3_Witness ==
    /\ pc = "puzzle_verified"
    /\ Len(proved) = 1
    /\ proved[1].minimum = Some(3)
    /\ targets = [coinbase_target |-> 3, proof_target |-> 3]
    /\ epoch_degree(epoch_challenge) = 2
    /\ puzzle_result = "true"

\* The prover solutions handed to accumulate_unchecked.
ProverSolutions == [i \in 1 .. Len(proved) |-> proved[i].solution]

PuzzleErrors ==
    {"The coinbase solution does not contain any partial solutions",
     "The coinbase solution exceeds the allowed number of partial solutions.",
     "The coinbase proof must be non-hiding",
     "The coinbase proof does not meet the coinbase target",
     "The coinbase solution contains duplicate puzzle commitments",
     "Prover puzzle does not meet the proof target requirements."}

\* The coinbase solution passes the checks verify makes before the cumulative
\* target: it is not empty, within the limit, and its proof is not hiding.
WellFormedCoinbase ==
    /\ coinbase.status = "ok"
    /\ Len(coinbase.solution.partial_solutions) \in 1 .. MAX_PROVER_SOLUTIONS
    /\ ~is_hiding(coinbase.solution.proof)

\* C11: verify of a non-empty, within-limit, non-hiding coinbase solution whose
\* partial solutions' targets sum to less than coinbase_target returns the
\* error of the cumulative-target check, and so never Ok(true).
C11_CumulativeTarget ==
    pc = "puzzle_verified" /\ WellFormedCoinbase
        /\ to_cumulative_proof_target(coinbase.solution.partial_solutions)
               < targets.coinbase_target
        => puzzle_result = "The coinbase proof does not meet the coinbase target"

C11_Witness ==
    /\ pc = "puzzle_verified"
    /\ WellFormedCoinbase
    /\ Len(coinbase.solution.partial_solutions) = 2
    /\ to_cumulative_proof_target(coinbase.solution.partial_solutions) < targets.coinbase_target
    /\ \A i \in 1 .. 2 : to_target(coinbase.solution.partial_solutions[i]) >= targets.proof_target
    /\ puzzle_result = "The coinbase proof does not meet the coinbase target"

\* Some partial solution of the coinbase solution is below the proof target.
BelowProofTarget ==
    \E i \in 1 .. Len(coinbase.solution.partial_solutions) :
        to_target(coinbase.solution.partial_solutions[i]) < targets.proof_target

\* C12: when one partial solution is below proof_target, verify returns an
\* error: it returns neither Ok(true) nor Ok(false) for the other solutions.
C12_ProofTargetAborts ==
    pc = "puzzle_verified" /\ BelowProofTarget => puzzle_result \in PuzzleErrors

C12_Witness ==
    /\ pc = "puzzle_verified"
    /\ WellFormedCoinbase
    /\ \E i, j \in 1 .. Len(coinbase.solution.partial_solutions) :
          /\ to_target(coinbase.solution.partial_solutions[i]) < targets.proof_target
          /\ to_target(coinbase.solution.partial_solutions[j]) >= targets.proof_target
    /\ \A k \in 1 .. Len(proved) : ~proved[k].forged
    /\ puzzle_result = "Prover puzzle does not meet the proof target requirements."

\* C13: accumulate_unchecked returns an error, and no coinbase solution, for
\* an empty list, for a list of more than MAX_PROVER_SOLUTIONS prover
\* solutions, and for a list holding two equal prover solutions.
C13_AccumulateRejects ==
    coinbase.status # "none"
        /\ (\/ ProverSolutions = <<>>
            \/ Len(ProverSolutions) > MAX_PROVER_SOLUTIONS
            \/ has_duplicates(ProverSolutions))
        => coinbase.status = "error" /\ pc = "accumulate_failed"

C13_Witness ==
    /\ pc = "accumulate_failed"
    /\ Len(ProverSolutions) = MAX_PROVER_SOLUTIONS
    /\ has_duplicates(ProverSolutions)
    /\ coinbase = [status |-> "error",
                   error |-> "Cannot accumulate duplicate prover solutions"]

\* The commitments of the accumulated coinbase solution.
CoinbaseCommitments ==
    [i \in 1 .. Len(coinbase.solution.partial_solutions) |->
        coinbase.solution.partial_solutions[i].commitment]

\* C14, as stated: a coinbase solution returned by accumulate_unchecked has
\* at most MAX_PROVER_SOLUTIONS partial solutions and no two partial
\* solutions with the same commitment.
C14_NoDuplicateCommitments ==
    coinbase.status = "ok"
        => /\ Len(coinbase.solution.partial_solutions) <= MAX_PROVER_SOLUTIONS
           /\ ~has_duplicates(CoinbaseCommitments)

\* C14, amended: a coinbase solution returned by accumulate_unchecked has at
\* most MAX_PROVER_SOLUTIONS partial solutions, made of the non-hiding ones
\* of a list without two equal prover solutions; two partial solutions with
\* one commitment are an error of verify, not of accumulate_unchecked.
C14_CountAndFullDuplicates ==
    /\ coinbase.status = "ok"
         => /\ Len(coinbase.solution.partial_solutions) <= MAX_PROVER_SOLUTIONS
            /\ ~has_duplicates(ProverSolutions)
            /\ coinbase.solution.partial_solutions = filter_map(ProverSolutions)
    /\ pc = "puzzle_verified" /\ has_duplicates(CoinbaseCommitments)
         => puzzle_result \in PuzzleErrors

C14_Witness ==
    /\ pc = "puzzle_verified"
    /\ Len(coinbase.solution.partial_solutions) = MAX_PROVER_SOLUTIONS
    /\ has_duplicates(CoinbaseCommitments)
    /\ \E k \in 1 .. Len(proved) : proved[k].forged
    /\ puzzle_result = "The coinbase solution contains duplicate puzzle commitments"

\* The partial solution of a prover solution.
PartialOf(solution) == solution.partial_solution

NonHiding(solution) == ~is_hiding(solution.proof)

\* The partial solutions of the prover solutions, one for each, in order.
PartialsOf(solutions) == [i \in 1 .. Len(solutions) |-> PartialOf(solutions[i])]

\* C28 as the claim states it: a coinbase solution that accumulate_unchecked
\* returns holds one partial solution for each prover solution handed in, in
\* their order, and so at least one.
C28_OnePartialPerSolution ==
    pc \in {"accumulated", "puzzle_verified"}
        => /\ coinbase.solution.partial_solutions = PartialsOf(ProverSolutions)
           /\ Len(coinbase.solution.partial_solutions) >= 1

\* C28: a coinbase solution that accumulate_unchecked returns holds one
\* partial solution for each prover solution with a non-hiding proof, in
\* their order; the prover solutions with a hiding proof are left out.
C28_OnePartialPerNonHiding ==
    pc \in {"accumulated", "puzzle_verified"}
        => coinbase.solution.partial_solutions
             = PartialsOf(SelectSeq(ProverSolutions, NonHiding))

\* A proved solution and a solution with a hiding proof were accumulated into
\* a coinbase solution with the one partial solution of the proved one.
C28_Witness ==
    /\ pc = "accumulated"
    /\ Len(proved) = 2
    /\ \E i \in 1 .. 2 : is_hiding(proved[i].solution.proof)
    /\ \E i \in 1 .. 2 : ~is_hiding(proved[i].solution.proof)
    /\ Len(coinbase.solution.partial_solutions) = 1

(***************************************************************************)
(* The transition output storage.  A map holds its committed entries, a set *)
(* of <<key, value>> pairs with one pair for a key, the operations queued   *)
(* by the atomic batch, and the flag of a batch in progress.                *)
(***************************************************************************)
MaxCalls == 3

MapNames ==
    <<"id_map", "reverse_id_map", "constant_map", "public_map", "private_map",
      "record_map", "record_nonce_map", "external_record_map">>

MapSet == {MapNames[i] : i \in 1 .. Len(MapNames)}

EmptyMap == [map |-> {}, atomic_batch |-> <<>>, batch_in_progress |-> FALSE]

\* `Map::insert`: queued while a batch is in progress, else written at once.
map_insert(mp, key, value) ==
    IF mp.batch_in_progress
    THEN [mp EXCEPT !.atomic_batch = Append(@, <<key, Some(value)>>)]
    ELSE [mp EXCEPT !.map = {e \in @ : e[1] # key} \cup {<<key, value>>}]

\* `Map::remove`.
map_remove(mp, key) ==
    IF mp.batch_in_progress
    THEN [mp EXCEPT !.atomic_batch = Append(@, <<key, None>>)]
    ELSE [mp EXCEPT !.map = {e \in @ : e[1] # key}]

\* `Map::get`: the committed value of the key, as an option.
map_get(mp, key) == {e[2] : e \in {x \in mp.map : x[1] = key}}

\* The keys of a map with a committed entry.
Keys(mp) == {e[1] : e \in mp.map}

map_start_atomic(mp) == [mp EXCEPT !.batch_in_progress = TRUE]

map_is_atomic_in_progress(mp) == mp.batch_in_progress

map_abort_atomic(mp) == [mp EXCEPT !.atomic_batch = <<>>, !.batch_in_progress = FALSE]

\* The entries of a map after the queued operations, in their order.
RECURSIVE apply_batch(_, _)
apply_batch(entries, batch) ==
    IF batch = <<>> THEN entries
    ELSE LET key == Head(batch)[1]
             rest == {e \in entries : e[1] # key}
         IN apply_batch(rest \cup {<<key, v>> : v \in Head(batch)[2]}, Tail(batch))

map_finish_atomic(mp) ==
    [map |-> apply_batch(mp.map, mp.atomic_batch), atomic_batch |-> <<>>,
     batch_in_progress |-> FALSE]

\* The outputs of a transition.
ConstantOutput(id, plaintext) == [variant |-> "Constant", id |-> id, value |-> plaintext]
PublicOutput(id, plaintext) == [variant |-> "Public", id |-> id, value |-> plaintext]
PrivateOutput(id, ciphertext) == [variant |-> "Private", id |-> id, value |-> ciphertext]
RecordOutput(commitment, checksum, optional_record) ==
    [variant |-> "Record", id |-> commitment, checksum |-> checksum,
     value |-> optional_record]
ExternalRecordOutput(id) == [variant |-> "ExternalRecord", id |-> id, value |-> None]

\* OutputStorage::start_atomic.
start_atomic(st) == [m \in MapSet |-> map_start_atomic(st[m])]

\* OutputStorage::is_atomic_in_progress.
is_atomic_in_progress(st) == \E i \in 1 .. Len(MapNames) : map_is_atomic_in_progress(st[MapNames[i]])

\* OutputStorage::abort_atomic.
abort_atomic(st) == [m \in MapSet |-> map_abort_atomic(st[m])]

\* OutputStorage::finish_atomic, where the finish of the map `fail_at` fails
\* (0: none does): the maps before it are finished, the others are left.
finish_atomic(st, fail_at) ==
    [ok |-> fail_at = 0,
     store |-> [m \in MapSet |->
                  IF \E i \in 1 .. Len(MapNames) :
                        MapNames[i] = m /\ (fail_at = 0 \/ i < fail_at)
                  THEN map_finish_atomic(st[m]) ELSE st[m]]]

Write(map, key, value) == [map |-> map, key |-> key, value |-> value]

\* The writes of an insert that writes an output to no map of its kind.
OutputWrites_reverse_only(transition_id, output) ==
    <<Write("reverse_id_map", output.id, Some(transition_id))>>

\* The map writes of insert for one output, in their order.
OutputWrites(transition_id, output) ==
    <<Write("reverse_id_map", output.id, Some(transition_id))>>
    \o (CASE output.variant = "Constant" ->
                <<Write("constant_map", output.id, Some(output.value))>>
          [] output.variant = "Public" ->
                <<Write("public_map", output.id, Some(output.value))>>
          [] output.variant = "Private" ->
                <<Write("private_map", output.id, Some(output.value))>>
          [] output.variant = "Record" ->
                [i \in 1 .. Cardinality(output.value) |->
                    Write("record_nonce_map", (CHOOSE r \in output.value : TRUE).nonce,
                          Some(output.id))]
                \o <<Write("record_map", output.id,
                           Some(<<output.checksum, output.value>>))>>
          [] output.variant = "ExternalRecord" ->
                <<Write("external_record_map", output.id, Some(<<>>))>>)

\* run_atomic_ops of insert: the map writes, in their order.
InsertWrites(transition_id, outputs) ==
    <<Write("id_map", transition_id, Some([i \in 1 .. Len(outputs) |-> outputs[i].id]))>>
    \o Flatten([i \in 1 .. Len(outputs) |-> OutputWrites(transition_id, outputs[i])])

\* The storage after the first `n` of the writes.
RECURSIVE run_atomic_ops(_, _, _)
run_atomic_ops(st, writes, n) ==
    IF n = 0 THEN st
    ELSE LET before == run_atomic_ops(st, writes, n - 1)
             w == writes[n]
         IN [before EXCEPT ![w.map] =
                IF w.value = None THEN map_remove(@, w.key)
                ELSE map_insert(@, w.key, CHOOSE v \in w.value : TRUE)]

\* OutputStorage::insert: [ok, failed, store].  The write `fail_at` returns an
\* error (0: none does), and then the finish of the map `fail_finish` does.
insert(st, transition_id, outputs, fail_at, fail_finish) ==
    LET is_part_of_atomic_batch == is_atomic_in_progress(st)
        started == IF is_part_of_atomic_batch THEN st ELSE start_atomic(st)
        writes == InsertWrites(transition_id, outputs)
    IN IF fail_at \in 1 .. Len(writes)
       THEN [ok |-> FALSE, failed |-> "write",
             store |-> abort_atomic(run_atomic_ops(started, writes, fail_at - 1))]
       ELSE LET written == run_atomic_ops(started, writes, Len(writes))
            IN IF is_part_of_atomic_batch
               THEN [ok |-> TRUE, failed |-> "none", store |-> written]
               ELSE LET finished == finish_atomic(written, fail_finish)
                    IN [ok |-> finished.ok,
                        failed |-> IF finished.ok THEN "none" ELSE "finish",
                        store |-> finished.store]

\* The map writes of remove for one output ID, with the record nonce of a
\* stored record left in the record nonce map.
OutputRemovals_without_nonce(st, output_id) ==
    <<Write("reverse_id_map", output_id, None),
      Write("constant_map", output_id, None), Write("public_map", output_id, None),
      Write("private_map", output_id, None), Write("record_map", output_id, None),
      Write("external_record_map", output_id, None)>>

\* The map writes of a remove that takes the reverse entry of the output ID
\* one below away as well.
OutputRemovals_with_neighbour(st, output_id) ==
    <<Write("reverse_id_map", output_id - 1, None)>>
    \o OutputRemovals_without_nonce(st, output_id)

\* The map writes of remove for one output ID, in their order.
OutputRemovals(st, output_id) ==
    <<Write("reverse_id_map", output_id, None)>>
    \o Flatten([i \in 1 .. Cardinality(map_get(st["record_map"], output_id)) |->
          LET record == CHOOSE r \in map_get(st["record_map"], output_id) : TRUE
          IN [j \in 1 .. Cardinality(record[2]) |->
                Write("record_nonce_map", (CHOOSE r \in record[2] : TRUE).nonce, None)]])
    \o <<Write("constant_map", output_id, None), Write("public_map", output_id, None),
         Write("private_map", output_id, None), Write("record_map", output_id, None),
         Write("external_record_map", output_id, None)>>

\* run_atomic_ops of remove: the map writes for the transition ID and the
\* first `n` output IDs, in their order.  The record of an output ID is read
\* from the storage as the writes before have left it.
RECURSIVE RemoveWrites(_, _, _, _)
RemoveWrites(st, transition_id, output_ids, n) ==
    IF n = 0 THEN <<Write("id_map", transition_id, None)>>
    ELSE LET earlier == RemoveWrites(st, transition_id, output_ids, n - 1)
         IN earlier \o OutputRemovals(run_atomic_ops(st, earlier, Len(earlier)),
                                      output_ids[n])

\* OutputStorage::remove.
remove(st, transition_id, fail_at, fail_finish) ==
    IF map_get(st["id_map"], transition_id) = None
    THEN [ok |-> TRUE, failed |-> "none", store |-> st]
    ELSE
    LET output_ids == CHOOSE ids \in map_get(st["id_map"], transition_id) : TRUE
        is_part_of_atomic_batch == is_atomic_in_progress(st)
        started == IF is_part_of_atomic_batch THEN st ELSE start_atomic(st)
        writes == RemoveWrites(started, transition_id, output_ids, Len(output_ids))
    IN IF fail_at \in 1 .. Len(writes)
       THEN [ok |-> FALSE, failed |-> "write",
             store |-> abort_atomic(run_atomic_ops(started, writes, fail_at - 1))]
       ELSE LET written == run_atomic_ops(started, writes, Len(writes))
            IN IF is_part_of_atomic_batch
               THEN [ok |-> TRUE, failed |-> "none", store |-> written]
               ELSE LET finished == finish_atomic(written, fail_finish)
                    IN [ok |-> finished.ok,
                        failed |-> IF finished.ok THEN "none" ELSE "finish",
                        store |-> finished.store]

\* find_transition_id that looks the output ID up among the transition IDs.
find_transition_id_in_id_map(st, output_id) ==
    {transition_id \in Keys(st["id_map"]) : transition_id = output_id}

\* OutputStorage::find_transition_id: an option.
find_transition_id(st, output_id) == map_get(st["reverse_id_map"], output_id)

\* OutputStorage::get_ids.
get_ids(st, transition_id) ==
    IF map_get(st["id_map"], transition_id) = None THEN <<>>
    ELSE CHOOSE outputs \in map_get(st["id_map"], transition_id) : TRUE

StorageError(message) == [ok |-> FALSE, error |-> message]

\* construct_output of OutputStorage::get: the output stored for an output ID.
construct_output(st, output_id) ==
    LET constant == map_get(st["constant_map"], output_id)
        public == map_get(st["public_map"], output_id)
        private == map_get(st["private_map"], output_id)
        record == map_get(st["record_map"], output_id)
        external_record == map_get(st["external_record_map"], output_id)
        found == <<constant # None, public # None, private # None, record # None,
                   external_record # None>>
    IN CASE found = <<TRUE, FALSE, FALSE, FALSE, FALSE>> ->
                [ok |-> TRUE,
                 output |-> ConstantOutput(output_id, CHOOSE v \in constant : TRUE)]
         [] found = <<FALSE, TRUE, FALSE, FALSE, FALSE>> ->
                [ok |-> TRUE,
                 output |-> PublicOutput(output_id, CHOOSE v \in public : TRUE)]
         [] found = <<FALSE, FALSE, TRUE, FALSE, FALSE>> ->
                [ok |-> TRUE,
                 output |-> PrivateOutput(output_id, CHOOSE v \in private : TRUE)]
         [] found = <<FALSE, FALSE, FALSE, TRUE, FALSE>> ->
                LET r == CHOOSE v \in record : TRUE
                IN [ok |-> TRUE, output |-> RecordOutput(output_id, r[1], r[2])]
         [] found = <<FALSE, FALSE, FALSE, FALSE, TRUE>> ->
                [ok |-> TRUE, output |-> ExternalRecordOutput(output_id)]
         [] found = <<FALSE, FALSE, FALSE, FALSE, FALSE>> ->
                StorageError("Missing output")
         [] OTHER -> StorageError("Found multiple outputs for the output ID")

\* get that returns the outputs in the order of their IDs, not of the list.
get_sorted_by_id(st, transition_id) ==
    LET ids == get_ids(st, transition_id)
        rank(i) == Cardinality({j \in 1 .. Len(ids) : ids[j] > ids[i]}) + 1
        constructed == [i \in 1 .. Len(ids) |->
                          construct_output(st, ids[CHOOSE k \in 1 .. Len(ids) : rank(k) = i])]
    IN IF \E i \in 1 .. Len(ids) : ~constructed[i].ok
       THEN constructed[CHOOSE i \in 1 .. Len(ids) : ~constructed[i].ok]
       ELSE [ok |-> TRUE, outputs |-> [i \in 1 .. Len(ids) |-> constructed[i].output]]

\* OutputStorage::get: [ok |-> TRUE, outputs] or the first error.
get(st, transition_id) ==
    LET ids == get_ids(st, transition_id)
        constructed == [i \in 1 .. Len(ids) |-> construct_output(st, ids[i])]
    IN IF \E i \in 1 .. Len(ids) : ~constructed[i].ok
       THEN constructed[CHOOSE i \in 1 .. Len(ids) :
                            /\ ~constructed[i].ok
                            /\ \A j \in 1 .. (i - 1) : constructed[j].ok]
       ELSE [ok |-> TRUE, outputs |-> [i \in 1 .. Len(ids) |-> constructed[i].output]]

(***************************************************************************)
(* The scenario of the storage: up to MaxCalls calls, each of which may see  *)
(* one of its map writes, or the finish of one map, fail.                    *)
(***************************************************************************)
TransitionIDs == {1, 2}

StoredRecord == [nonce |-> 1, owner |-> 1]

OutputLists ==
    {<<ConstantOutput(1, Some(1))>>,
     <<PublicOutput(2, None), RecordOutput(3, 5, Some(StoredRecord))>>,
     <<RecordOutput(3, 6, None), ExternalRecordOutput(4)>>,
     <<PrivateOutput(1, Some(2))>>,
     <<RecordOutput(3, 5, Some(StoredRecord)), RecordOutput(3, 5, Some(StoredRecord))>>}

\* The writes that may fail in a call with up to three outputs, and the
\* finishes that may: 0 stands for none.
WriteFailures == 0 .. 4
FinishFailures == {0, 7}

Committed(st) == [m \in MapSet |-> st[m].map]

\* The record nonces of the stored records among the outputs.
OutputNonces(outputs) ==
    [i \in 1 .. Len(outputs) |->
        IF outputs[i].variant = "Record"
        THEN {record.nonce : record \in outputs[i].value} ELSE {}]

\* The transition is not stored, and its output IDs and record nonces are
\* pairwise different and are keys of no map: what content addressing gives
\* for the outputs of a new transition.
FreshInsert(st, transition_id, outputs) ==
    /\ transition_id \notin Keys(st["id_map"])
    /\ \A i \in 1 .. Len(outputs) :
          /\ \A m \in MapSet \ {"id_map", "record_nonce_map"} :
                outputs[i].id \notin Keys(st[m])
          /\ OutputNonces(outputs)[i] \cap Keys(st["record_nonce_map"]) = {}
          /\ \A j \in 1 .. Len(outputs) :
                i # j => /\ outputs[i].id # outputs[j].id
                         /\ OutputNonces(outputs)[i] \cap OutputNonces(outputs)[j] = {}

\* The storage with the queued operations of every map applied.
Queued(st) ==
    [m \in MapSet |-> [st[m] EXCEPT !.map = apply_batch(st[m].map, st[m].atomic_batch)]]

\* The output IDs that the stored transitions list.
Listed(st) ==
    UNION {{e[2][i] : i \in 1 .. Len(e[2])} : e \in st["id_map"].map}

\* The transition and its output IDs and record nonces are new to the
\* storage and to the open batch: they are pairwise different, and they are
\* neither stored, nor listed for a stored transition, nor queued.
NewInsert(st, transition_id, outputs) ==
    /\ FreshInsert(st, transition_id, outputs)
    /\ FreshInsert(Queued(st), transition_id, outputs)
    /\ \A i \in 1 .. Len(outputs) :
          outputs[i].id \notin Listed(st) \cup Listed(Queued(st))

\* The last call, and what is known of the calls so far: `plain` while every
\* call was a successful insert or remove with no batch in progress, `fresh`
\* while every insert was of a transition and of outputs new to the store,
\* `new_ids` while every insert was of a transition and of outputs new to the
\* store and to the open batch, `round_trip_from` the committed entries
\* before the insert that the remove just made has undone.
NoCall ==
    [op |-> "none", ok |-> TRUE, failed |-> "none", transition_id |-> 0,
     outputs |-> <<>>, plain |-> TRUE, fresh |-> TRUE, new_ids |-> TRUE,
     round_trip_from |-> None]

StorageInit ==
    /\ pc = "storage"
    /\ store = [m \in MapSet |-> EmptyMap]
    /\ store_before = [m \in MapSet |-> EmptyMap]
    /\ last_call = NoCall
    /\ calls = 0
    /\ RequestIdle
    /\ PuzzleIdle
    /\ TransitionIdle
    /\ BytesIdle
    /\ DomainIdle

Called(op, transition_id, outputs, r) ==
    /\ calls < MaxCalls
    /\ calls' = calls + 1
    /\ store_before' = store
    /\ store' = r.store
    /\ last_call' =
         [op |-> op, ok |-> r.ok, failed |-> r.failed,
          transition_id |-> transition_id, outputs |-> outputs,
          plain |-> /\ last_call.plain
                    /\ op \in {"insert", "remove"}
                    /\ r.ok
                    /\ ~is_atomic_in_progress(store),
          fresh |-> /\ last_call.fresh
                    /\ (op = "insert" => FreshInsert(store, transition_id, outputs)),
          new_ids |-> /\ last_call.new_ids
                      /\ (op = "insert" => NewInsert(store, transition_id, outputs)),
          round_trip_from |->
              IF /\ op = "remove" /\ r.ok
                 /\ last_call.op = "insert" /\ last_call.ok
                 /\ last_call.transition_id = transition_id
                 /\ transition_id \notin Keys(store_before["id_map"])
              THEN Some(Committed(store_before)) ELSE None]
    /\ UNCHANGED pc
    /\ UNCHANGED othersOfStorage

DoStartAtomic ==
    Called("start_atomic", 0, <<>>, [ok |-> TRUE, failed |-> "none", store |-> start_atomic(store)])

DoAbortAtomic ==
    Called("abort_atomic", 0, <<>>, [ok |-> TRUE, failed |-> "none", store |-> abort_atomic(store)])

DoFinishAtomic ==
    \E fail_finish \in FinishFailures :
        LET r == finish_atomic(store, fail_finish)
        IN Called("finish_atomic", 0, <<>>,
                  [ok |-> r.ok, failed |-> IF r.ok THEN "none" ELSE "finish",
                   store |-> r.store])

DoInsert ==
    \E transition_id \in TransitionIDs, outputs \in OutputLists,
       fail_at \in WriteFailures, fail_finish \in FinishFailures :
        /\ fail_at <= Len(InsertWrites(transition_id, outputs))
        /\ Called("insert", transition_id, outputs, insert(store, transition_id, outputs, fail_at, fail_finish))

DoRemove ==
    \E transition_id \in TransitionIDs,
       fail_at \in WriteFailures, fail_finish \in FinishFailures :
        Called("remove", transition_id, <<>>, remove(store, transition_id, fail_at, fail_finish))

StorageNext ==
    \/ DoStartAtomic
    \/ DoAbortAtomic
    \/ DoFinishAtomic
    \/ DoInsert
    \/ DoRemove

SpecStorage == StorageInit /\ [][StorageNext]_vars

\* C5: when a map write of insert fails, insert returns the error after
\* abort_atomic: no batch is in progress, nothing is queued, and each of the
\* eight maps has the committed entries it had before the call.
C5_InsertFailureAborts ==
    last_call.op = "insert" /\ last_call.failed = "write"
        => /\ ~last_call.ok
           /\ ~is_atomic_in_progress(store)
           /\ \A m \in MapSet : store[m].atomic_batch = <<>>
           /\ Committed(store) = Committed(store_before)

C16_GetAfterInsertAndRemove ==
    /\ \A t \in TransitionIDs :
          t \notin Keys(store["id_map"]) => get(store, t) = [ok |-> TRUE, outputs |-> <<>>]
    /\ last_call.plain /\ last_call.op = "insert"
          /\ last_call.transition_id \notin Keys(store_before["id_map"])
          => get(store, last_call.transition_id)
               = [ok |-> TRUE, outputs |-> last_call.outputs]
    /\ last_call.plain /\ last_call.op = "remove"
          => get(store, last_call.transition_id) = [ok |-> TRUE, outputs |-> <<>>]

\* C16, amended: the same, for inserts of transitions whose output IDs and
\* record nonces were new to the store.
C16_GetAfterFreshInsertAndRemove ==
    /\ \A t \in TransitionIDs :
          t \notin Keys(store["id_map"]) => get(store, t) = [ok |-> TRUE, outputs |-> <<>>]
    /\ last_call.plain /\ last_call.fresh /\ last_call.op = "insert"
          => get(store, last_call.transition_id)
               = [ok |-> TRUE, outputs |-> last_call.outputs]
    /\ last_call.plain /\ last_call.op = "remove"
          => get(store, last_call.transition_id) = [ok |-> TRUE, outputs |-> <<>>]

C16_Witness ==
    /\ last_call.plain
    /\ last_call.fresh
    /\ last_call.op = "insert"
    /\ Len(last_call.outputs) = 2
    /\ Cardinality(Keys(store["id_map"])) = 2
    /\ get(store, last_call.transition_id) = [ok |-> TRUE, outputs |-> last_call.outputs]

\* The output IDs of the scenario.
OutputIDs == UNION {{outputs[i].id : i \in 1 .. Len(outputs)} : outputs \in OutputLists}

\* find_transition_id(o) is Some(t) exactly when t is stored and lists o.
FindMatchesGetIDs(st) ==
    \A o \in OutputIDs, t \in TransitionIDs :
        find_transition_id(st, o) = Some(t)
            <=> /\ t \in Keys(st["id_map"])
                /\ \E i \in 1 .. Len(get_ids(st, t)) : get_ids(st, t)[i] = o

\* C17, as stated: in every state reached by successful inserts and removes,
\* find_transition_id(o) is Some(t) exactly when t is stored and o is among
\* get_ids(t), and None when no stored transition lists o.
C17_FindTransitionID ==
    last_call.plain => FindMatchesGetIDs(store)

\* C17, amended: the same, in the states reached by removes and by inserts of
\* transitions whose output IDs and record nonces were new to the store.
C17_FindTransitionIDOfFresh ==
    last_call.plain /\ last_call.fresh => FindMatchesGetIDs(store)

C17_Witness ==
    /\ last_call.plain
    /\ last_call.fresh
    /\ calls = 3
    /\ last_call.op = "remove"
    /\ Cardinality(Keys(store["id_map"])) = 1
    /\ \E o \in OutputIDs : find_transition_id(store, o) # None
    /\ \E o \in OutputIDs : find_transition_id(store, o) = None /\ find_transition_id(store_before, o) # None
    /\ FindMatchesGetIDs(store)

\* The committed entries of every map after its queued operations.
Pending(st) == [m \in MapSet |-> apply_batch(st[m].map, st[m].atomic_batch)]

\* C18: an insert or remove that returns Ok while a batch is in progress
\* leaves the batch in progress and the committed entries as they were: its
\* writes wait for the finish_atomic of the enclosing batch.
C18_NestedCallsDefer ==
    last_call.op \in {"insert", "remove"} /\ last_call.ok
        /\ is_atomic_in_progress(store_before)
        => /\ is_atomic_in_progress(store)
           /\ Committed(store) = Committed(store_before)

\* C19: after finish_atomic, returned with Ok or with the error of one map,
\* either every map has committed its queued writes or no map has.
C19_AllOrNothing ==
    last_call.op = "finish_atomic"
        => \/ Committed(store) = Pending(store_before)
           \/ Committed(store) = Committed(store_before)

\* The maps of the five kinds of output.
KindMaps == {"constant_map", "public_map", "private_map", "record_map",
             "external_record_map"}

\* Each output ID listed for a stored transition is a key of exactly one of
\* the maps of the five kinds.
ListedOnce(st) ==
    \A t \in Keys(st["id_map"]) :
        \A i \in 1 .. Len(get_ids(st, t)) :
            Cardinality({m \in KindMaps : get_ids(st, t)[i] \in Keys(st[m])}) = 1

\* C26 as the claim states it: after successful inserts and removes on an
\* empty store, get succeeds for every transition ID, and each listed
\* output ID is in exactly one of the maps of the five kinds.
C26_GetSucceeds ==
    last_call.plain
        => /\ \A t \in TransitionIDs : get(store, t).ok
           /\ ListedOnce(store)

\* C26: the same, when every insert was of a transition that was not stored
\* and whose output IDs and record nonces were new to the store.
C26_GetSucceedsOnFresh ==
    last_call.plain /\ last_call.fresh
        => /\ \A t \in TransitionIDs : get(store, t).ok
           /\ ListedOnce(store)

\* Two transitions are stored, after an insert, a remove and two more
\* inserts of outputs new to the store, and get returns the outputs of both.
C26_Witness ==
    /\ last_call.plain
    /\ last_call.fresh
    /\ calls = MaxCalls
    /\ last_call.op = "insert"
    /\ Keys(store["id_map"]) = TransitionIDs
    /\ \A t \in TransitionIDs : get(store, t).ok /\ Len(get(store, t).outputs) > 0

\* What get, get_ids and find_transition_id return for the transition and
\* for the output IDs `ids`.
Stored(st, t, ids) ==
    [outputs |-> get(st, t), ids |-> get_ids(st, t),
     found |-> [i \in 1 .. Len(ids) |-> find_transition_id(st, ids[i])]]

\* Every transition stored before the last call, other than the one of the
\* call, reads after the call as it did before.
OthersUntouched ==
    \A t \in Keys(store_before["id_map"]) \ {last_call.transition_id} :
        Stored(store, t, get_ids(store_before, t))
            = Stored(store_before, t, get_ids(store_before, t))

\* C29 as the claim states it: an insert or remove of one transition leaves
\* what get, get_ids and find_transition_id return for each other stored
\* transition as it was.
C29_OthersUntouched ==
    last_call.op \in {"insert", "remove"} => OthersUntouched

\* C29: the same, returned with Ok or with an error, in a batch or in none,
\* when every insert was of a transition that was not stored and whose
\* output IDs and record nonces were new to the store and to the open batch.
C29_OthersUntouchedByFresh ==
    last_call.op \in {"insert", "remove"} /\ last_call.new_ids => OthersUntouched

\* Two transitions were inserted with outputs new to the store and the
\* second was removed: the first reads with its output as before.
C29_Witness ==
    /\ last_call.op = "remove"
    /\ last_call.ok
    /\ last_call.new_ids
    /\ Keys(store_before["id_map"]) = TransitionIDs
    /\ Keys(store["id_map"]) = TransitionIDs \ {last_call.transition_id}
    /\ \A t \in Keys(store["id_map"]) :
          get(store, t).ok /\ Len(get(store, t).outputs) > 0
    /\ OthersUntouched

\* C30: an insert or remove called with no batch in progress returns, with
\* Ok or with an error, with no batch in progress.
C30_NoBatchLeftInProgress ==
    last_call.op \in {"insert", "remove"} /\ ~is_atomic_in_progress(store_before)
        => ~is_atomic_in_progress(store)

(***************************************************************************)
(* Transition::from: the transition of a request and a response.            *)
(***************************************************************************)
MaxOutputs == 1

\* `Field::from_u64(locator)`.
from_u64(locator) == locator % FieldModulus

\* `Record::encrypt(randomizer)`: the fields of the record ciphertext.
encrypt(record, randomizer) ==
    [i \in 1 .. Len(to_fields(record)) |->
        (to_fields(record)[i] + hash_psd8(<<encryption_domain, randomizer, i>>))
            % FieldModulus]

OutputID(variant, hash) == [variant |-> variant, hash |-> hash]
RecordOutputID(commitment, checksum) ==
    [variant |-> "Record", commitment |-> commitment, checksum |-> checksum]

\* The inputs of a transition.
ConstantInput(id, plaintext) == [variant |-> "Constant", id |-> id, value |-> plaintext]
PublicInput(id, plaintext) == [variant |-> "Public", id |-> id, value |-> plaintext]
PrivateInput(id, ciphertext) == [variant |-> "Private", id |-> id, value |-> ciphertext]
RecordInput(serial_number, rtag) ==
    [variant |-> "Record", id |-> serial_number, tag |-> rtag]
ExternalRecordInput(id) == [variant |-> "ExternalRecord", id |-> id]

\* `Input::verify(function_id, tcm, index)` and `Output::verify`, of a
\* constant or public input or output that carries its plaintext.
verify_plaintext(entry, function_id, tcm, index) ==
    \A plaintext \in entry.value :
        entry.id = hash_psd8(<<function_id>> \o to_fields(plaintext)
                             \o <<tcm, from_u16(index)>>)

TransitionError(message) == [status |-> "error", error |-> message]

\* FromInput that takes the hash of a private input as it comes.
FromInput_private_unchecked(index, input_id, input, req, function_id) ==
    CASE input_id.variant = "Constant" /\ input.kind = "Plaintext" ->
            LET tinput == ConstantInput(input_id.hash, Some(input))
            IN IF verify_plaintext(tinput, function_id, req.tcm, index)
               THEN [status |-> "ok", input |-> tinput]
               ELSE TransitionError("Malformed constant transition input")
      [] input_id.variant = "Public" /\ input.kind = "Plaintext" ->
            LET tinput == PublicInput(input_id.hash, Some(input))
            IN IF verify_plaintext(tinput, function_id, req.tcm, index)
               THEN [status |-> "ok", input |-> tinput]
               ELSE TransitionError("Malformed public transition input")
      [] input_id.variant = "Private" /\ input.kind = "Plaintext" ->
            LET idx == from_u16(index)
                ciphertext ==
                    encrypt_symmetric(input, hash_psd4(<<function_id, req.tvk, idx>>))
            IN [status |-> "ok", input |-> PrivateInput(input_id.hash, Some(ciphertext))]
      [] input_id.variant = "Record" /\ input.kind = "Record" ->
            [status |-> "ok", input |-> RecordInput(input_id.serial_number, input_id.tag)]
      [] input_id.variant = "ExternalRecord" /\ input.kind = "Record" ->
            [status |-> "ok", input |-> ExternalRecordInput(input_id.hash)]
      [] OTHER -> TransitionError("Malformed request input")

\* One turn of the map over the inputs of Transition::from.
FromInput(index, input_id, input, req, function_id) ==
    CASE input_id.variant = "Constant" /\ input.kind = "Plaintext" ->
            LET tinput == ConstantInput(input_id.hash, Some(input))
            IN IF verify_plaintext(tinput, function_id, req.tcm, index)
               THEN [status |-> "ok", input |-> tinput]
               ELSE TransitionError("Malformed constant transition input")
      [] input_id.variant = "Public" /\ input.kind = "Plaintext" ->
            LET tinput == PublicInput(input_id.hash, Some(input))
            IN IF verify_plaintext(tinput, function_id, req.tcm, index)
               THEN [status |-> "ok", input |-> tinput]
               ELSE TransitionError("Malformed public transition input")
      [] input_id.variant = "Private" /\ input.kind = "Plaintext" ->
            LET idx == from_u16(index)
                ciphertext ==
                    encrypt_symmetric(input, hash_psd4(<<function_id, req.tvk, idx>>))
                ciphertext_hash == hash_psd8(ciphertext)
            IN IF input_id.hash = ciphertext_hash
               THEN [status |-> "ok", input |-> PrivateInput(input_id.hash, Some(ciphertext))]
               ELSE TransitionError("The input ciphertext hash is incorrect")
      [] input_id.variant = "Record" /\ input.kind = "Record" ->
            [status |-> "ok", input |-> RecordInput(input_id.serial_number, input_id.tag)]
      [] input_id.variant = "ExternalRecord" /\ input.kind = "Record" ->
            [status |-> "ok", input |-> ExternalRecordInput(input_id.hash)]
      [] OTHER -> TransitionError("Malformed request input")

\* One turn of the map over the outputs of Transition::from.
FromOutput(index, output_id, output, output_type, locator, req, function_id, num_inputs) ==
    CASE output_id.variant = "Constant" /\ output.kind = "Plaintext" ->
            LET toutput == ConstantOutput(output_id.hash, Some(output))
            IN IF verify_plaintext(toutput, function_id, req.tcm, num_inputs + index)
               THEN [status |-> "ok", output |-> toutput]
               ELSE TransitionError("Malformed constant transition output")
      [] output_id.variant = "Public" /\ output.kind = "Plaintext" ->
            LET toutput == PublicOutput(output_id.hash, Some(output))
            IN IF verify_plaintext(toutput, function_id, req.tcm, num_inputs + index)
               THEN [status |-> "ok", output |-> toutput]
               ELSE TransitionError("Malformed public transition output")
      [] output_id.variant = "Private" /\ output.kind = "Plaintext" ->
            LET idx == from_u16(num_inputs + index)
                ciphertext ==
                    encrypt_symmetric(output, hash_psd4(<<function_id, req.tvk, idx>>))
                ciphertext_hash == hash_psd8(ciphertext)
            IN IF output_id.hash = ciphertext_hash
               THEN [status |-> "ok",
                     output |-> PrivateOutput(output_id.hash, Some(ciphertext))]
               ELSE TransitionError("The output ciphertext hash is incorrect")
      [] output_id.variant = "Record" /\ output.kind = "Record" ->
            IF output_type.vis # "Record"
            THEN TransitionError("Expected a record type at output")
            ELSE
            LET candidate_cm == to_commitment(output, req.program_id, output_type.name)
                idx == from_u64(locator)
                randomizer == hash_to_scalar_psd2(<<req.tvk, idx>>)
                record_ciphertext == encrypt(output, randomizer)
                ciphertext_checksum == hash_bhp1024(record_ciphertext)
            IN IF output_id.commitment # candidate_cm
               THEN TransitionError("The output record commitment is incorrect")
               ELSE IF output_id.checksum # ciphertext_checksum
               THEN TransitionError("The output record ciphertext checksum is incorrect")
               ELSE [status |-> "ok",
                     output |-> RecordOutput(output_id.commitment, output_id.checksum,
                                             Some(record_ciphertext))]
      [] output_id.variant = "ExternalRecord" /\ output.kind = "Record" ->
            LET idx == from_u16(num_inputs + index)
                candidate_hash ==
                    hash_psd8(<<function_id>> \o to_fields(output) \o <<req.tvk, idx>>)
            IN IF output_id.hash = candidate_hash
               THEN [status |-> "ok", output |-> ExternalRecordOutput(output_id.hash)]
               ELSE TransitionError("The output external hash is incorrect")
      [] OTHER -> TransitionError("Malformed response output")

\* `Transition::function_tree(inputs, outputs).root()`.
function_tree_root(tinputs, toutputs) ==
    hash_bhp1024([i \in 1 .. Len(tinputs) |-> tinputs[i].id]
                 \o [i \in 1 .. Len(toutputs) |-> toutputs[i].id])

\* Transition::new.
new(pid, fname, tinputs, toutputs, finalize, proof, tpk, tcm, fee) ==
    [status |-> "ok",
     transition |-> [id |-> function_tree_root(tinputs, toutputs), program_id |-> pid,
                     function_name |-> fname, inputs |-> tinputs, outputs |-> toutputs,
                     finalize |-> finalize, proof |-> proof,
                     tpk |-> tpk, tcm |-> tcm, fee |-> fee]]

\* The first error of a sequence of results.
FirstError(results) ==
    results[CHOOSE i \in 1 .. Len(results) :
                /\ results[i].status = "error"
                /\ \A j \in 1 .. (i - 1) : results[j].status = "ok"]

\* Transition::from.  `zip_eq` panics at the end of the shorter sequence
\* when the sequences are not equally long, unless an entry before the end
\* has returned an error.
from(req, response, finalize, output_types, output_registers, proof, fee) ==
    LET function_id == FunctionID(req.network_id, req.program_id, req.function_name)
        num_inputs == Len(req.inputs)
        zipped_inputs == Min(Len(req.input_ids), num_inputs)
        tinputs == [i \in 1 .. zipped_inputs |->
                      FromInput(i - 1, req.input_ids[i], req.inputs[i], req, function_id)]
        zipped_outputs == Min(Min(Len(response.output_ids), Len(response.outputs)),
                              Min(Len(output_types), Len(output_registers)))
        toutputs == [i \in 1 .. zipped_outputs |->
                       FromOutput(i - 1, response.output_ids[i], response.outputs[i],
                                  output_types[i], output_registers[i], req,
                                  function_id, num_inputs)]
    IN
    IF \E i \in 1 .. zipped_inputs : tinputs[i].status = "error"
    THEN FirstError(tinputs)
    ELSE IF Len(req.input_ids) # num_inputs THEN [status |-> "panic"]
    ELSE IF \E i \in 1 .. zipped_outputs : toutputs[i].status = "error"
    THEN FirstError(toutputs)
    ELSE IF \/ Len(response.output_ids) # zipped_outputs
            \/ Len(response.outputs) # zipped_outputs
            \/ Len(output_types) # zipped_outputs
            \/ Len(output_registers) # zipped_outputs
    THEN [status |-> "panic"]
    ELSE new(req.program_id, req.function_name,
             [i \in 1 .. zipped_inputs |-> tinputs[i].input],
             [i \in 1 .. zipped_outputs |-> toutputs[i].output],
             finalize, proof, to_tpk(req), req.tcm, fee)

(***************************************************************************)
(* The scenario of the transition: a signed request and the response to    *)
(* it, one part of which may be altered before Transition::from is called.  *)
(***************************************************************************)
TransitionSigner == [sk_sig |-> 4, r_sig |-> 1]
TransitionCaller == to_address(ComputeKeyOf(TransitionSigner))

\* `Response::new`: the ID of one output.
ResponseOutputID(index, output, output_type, locator, req, function_id, num_inputs) ==
    LET idx == from_u16(num_inputs + index)
    IN
    CASE output_type.vis \in {"Constant", "Public"} ->
            OutputID(output_type.vis,
                     hash_psd8(<<function_id>> \o to_fields(output) \o <<req.tcm, idx>>))
      [] output_type.vis = "Private" ->
            OutputID("Private",
                     hash_psd8(encrypt_symmetric(output,
                                    hash_psd4(<<function_id, req.tvk, idx>>))))
      [] output_type.vis = "Record" ->
            RecordOutputID(to_commitment(output, req.program_id, output_type.name),
                           hash_bhp1024(encrypt(output,
                                hash_to_scalar_psd2(<<req.tvk, from_u64(locator)>>))))
      [] output_type.vis = "ExternalRecord" ->
            OutputID("ExternalRecord",
                     hash_psd8(<<function_id>> \o to_fields(output) \o <<req.tvk, idx>>))

OutputChoices ==
    {Choice("Constant", Plaintext(2)), Choice("Public", Plaintext(1)),
     Choice("Private", Plaintext(2)),
     Choice("Record", RecordValue(TransitionCaller, {0, 2}, 0, 0)),
     Choice("ExternalRecord", RecordValue(TransitionCaller, {0, 2}, 1, 0))}

\* The values an input or an output is replaced by.
TransitionValues ==
    {Plaintext(1), Plaintext(2), RecordValue(TransitionCaller, 0 .. 51, 1, 0),
     RecordValue(TransitionCaller, {0, 2}, 0, 0)}

TransitionInit ==
    /\ pc = "assembling"
    /\ \E n \in 0 .. MaxInputs, k \in 0 .. MaxOutputs :
         \E cs \in [1 .. n -> ValidInputChoices(TransitionCaller)],
            os \in [1 .. k -> OutputChoices] :
            LET s == Sign(TransitionSigner, TokenProgram, 1, [i \in 1 .. n |-> cs[i].value],
                          [i \in 1 .. n |-> cs[i].type], 1)
                req == s.request
                function_id == FunctionID(req.network_id, req.program_id,
                                          req.function_name)
            IN /\ s.ok
               /\ tr_request = req
               /\ tr_input_types = [i \in 1 .. n |-> cs[i].type]
               /\ tr_output_types = [j \in 1 .. k |-> os[j].type]
               /\ tr_output_registers = [j \in 1 .. k |-> n + j - 1]
               /\ tr_response =
                    [output_ids |-> [j \in 1 .. k |->
                        ResponseOutputID(j - 1, os[j].value, os[j].type, n + j - 1,
                                         req, function_id, n)],
                     outputs |-> [j \in 1 .. k |-> os[j].value]]
    /\ tr_altered = "none"
    /\ transition = [status |-> "none"]
    /\ RequestIdle
    /\ PuzzleIdle
    /\ StorageIdle
    /\ BytesIdle
    /\ DomainIdle

Bump(v) == (v + 1) % FieldModulus

\* One member of one input ID of the request is replaced.
AlterRequestInputID ==
    /\ pc = "assembling"
    /\ \E i \in 1 .. Len(tr_request.input_ids) :
         LET id == tr_request.input_ids[i]
         IN \E altered_id \in
                (IF id.variant = "Record"
                 THEN {[id EXCEPT !.commitment = Bump(@)], [id EXCEPT !.gamma = GroupAdd(@, 1)],
                       [id EXCEPT !.serial_number = Bump(@)], [id EXCEPT !.tag = Bump(@)]}
                 ELSE {[id EXCEPT !.hash = Bump(@)]}) :
               tr_request' = [tr_request EXCEPT !.input_ids[i] = altered_id]
    /\ tr_altered' = "input_id"
    /\ pc' = "tampered"
    /\ UNCHANGED <<tr_input_types, tr_response, tr_output_types, tr_output_registers,
                   transition>>
    /\ UNCHANGED othersOfTransition

\* One input of the request is replaced by another value.
AlterRequestInput ==
    /\ pc = "assembling"
    /\ \E i \in 1 .. Len(tr_request.inputs) :
         \E v \in TransitionValues \ {tr_request.inputs[i]} :
            tr_request' = [tr_request EXCEPT !.inputs[i] = v]
    /\ tr_altered' = "input"
    /\ pc' = "tampered"
    /\ UNCHANGED <<tr_input_types, tr_response, tr_output_types, tr_output_registers,
                   transition>>
    /\ UNCHANGED othersOfTransition

\* One member of one output ID of the response is replaced.
AlterOutputID ==
    /\ pc = "assembling"
    /\ \E j \in 1 .. Len(tr_response.output_ids) :
         LET id == tr_response.output_ids[j]
         IN \E altered_id \in
                (IF id.variant = "Record"
                 THEN {[id EXCEPT !.commitment = Bump(@)], [id EXCEPT !.checksum = Bump(@)]}
                 ELSE {[id EXCEPT !.hash = Bump(@)]}) :
               tr_response' = [tr_response EXCEPT !.output_ids[j] = altered_id]
    /\ tr_altered' = "output_id"
    /\ pc' = "tampered"
    /\ UNCHANGED <<tr_request, tr_input_types, tr_output_types, tr_output_registers,
                   transition>>
    /\ UNCHANGED othersOfTransition

\* One output of the response is replaced by another value.
AlterOutput ==
    /\ pc = "assembling"
    /\ \E j \in 1 .. Len(tr_response.outputs) :
         \E v \in TransitionValues \ {tr_response.outputs[j]} :
            tr_response' = [tr_response EXCEPT !.outputs[j] = v]
    /\ tr_altered' = "output"
    /\ pc' = "tampered"
    /\ UNCHANGED <<tr_request, tr_input_types, tr_output_types, tr_output_registers,
                   transition>>
    /\ UNCHANGED othersOfTransition

\* The execution proof handed to Transition::from, which only stores it.
TransitionProof == <<1>>

DoFrom ==
    /\ pc \in {"assembling", "tampered"}
    /\ transition' = from(tr_request, tr_response, None, tr_output_types,
                           tr_output_registers, TransitionProof, 0)
    /\ pc' = "assembled"
    /\ UNCHANGED <<tr_request, tr_input_types, tr_response, tr_output_types,
                   tr_output_registers, tr_altered>>
    /\ UNCHANGED othersOfTransition

TransitionNext ==
    \/ AlterRequestInputID
    \/ AlterRequestInput
    \/ AlterOutputID
    \/ AlterOutput
    \/ DoFrom

SpecTransition == TransitionInit /\ [][TransitionNext]_vars

\* The input ID `i` of the request is the one recomputed from the input.
InputIDMatches(req, types, i) ==
    LET id == req.input_ids[i]
        input == req.inputs[i]
        function_id == FunctionID(req.network_id, req.program_id, req.function_name)
        idx == from_u16(i - 1)
    IN
    CASE id.variant \in {"Constant", "Public"} ->
            /\ input.kind = "Plaintext"
            /\ id.hash = hash_psd8(<<function_id>> \o to_fields(input) \o <<req.tcm, idx>>)
      [] id.variant = "Private" ->
            /\ input.kind = "Plaintext"
            /\ id.hash = hash_psd8(encrypt_symmetric(input,
                                        hash_psd4(<<function_id, req.tvk, idx>>)))
      [] id.variant = "Record" ->
            /\ input.kind = "Record"
            /\ id.commitment = to_commitment(input, req.program_id, types[i].name)
            /\ id.serial_number = serial_number_from_gamma(id.gamma, id.commitment)
            /\ id.tag = tag(req.sk_tag, id.commitment)
      [] id.variant = "ExternalRecord" ->
            /\ input.kind = "Record"
            /\ id.hash = hash_psd8(<<function_id>> \o to_fields(input) \o <<req.tvk, idx>>)

\* The output ID `j` of the response is the one recomputed from the output.
OutputIDMatches(req, response, output_types, output_registers, j) ==
    LET id == response.output_ids[j]
        output == response.outputs[j]
        function_id == FunctionID(req.network_id, req.program_id, req.function_name)
        kind == IF id.variant \in {"Record", "ExternalRecord"} THEN "Record" ELSE "Plaintext"
    IN /\ output.kind = kind
       /\ id.variant = "Record" => output_types[j].vis = "Record"
       /\ id = ResponseOutputID(j - 1, output,
                                ValueType(id.variant, output_types[j].name),
                                output_registers[j], req, function_id, Len(req.inputs))

\* C6 as stated: Transition::from returns a transition only when every
\* input ID, of all five kinds, and every output ID is the one recomputed
\* from its value.
C6_EveryIDRevalidated ==
    pc = "assembled" /\ transition.status = "ok"
        => /\ \A i \in 1 .. Len(tr_request.input_ids) :
                InputIDMatches(tr_request, tr_input_types, i)
           /\ \A j \in 1 .. Len(tr_response.output_ids) :
                OutputIDMatches(tr_request, tr_response, tr_output_types,
                                tr_output_registers, j)

\* C6 amended: Transition::from returns a transition only when every
\* constant, public and private input ID and every output ID, of all five
\* kinds, is the one recomputed from its value; of a record or external record
\* input it checks only that the value is a record, and takes the serial
\* number and tag, or the hash, from the input ID as they come.
C6_CheckedIDsRevalidated ==
    pc = "assembled" /\ transition.status = "ok"
        => /\ \A i \in 1 .. Len(tr_request.input_ids) :
                IF tr_request.input_ids[i].variant \in {"Constant", "Public", "Private"}
                THEN InputIDMatches(tr_request, tr_input_types, i)
                ELSE /\ tr_request.inputs[i].kind = "Record"
                     /\ transition.transition.inputs[i].id
                          = (IF tr_request.input_ids[i].variant = "Record"
                             THEN tr_request.input_ids[i].serial_number
                             ELSE tr_request.input_ids[i].hash)
           /\ \A j \in 1 .. Len(tr_response.output_ids) :
                OutputIDMatches(tr_request, tr_response, tr_output_types,
                                tr_output_registers, j)

\* A transition was returned for a request with a private input and a record
\* input whose serial number is not the one of its record.
C6_Witness ==
    /\ pc = "assembled"
    /\ transition.status = "ok"
    /\ tr_altered = "input_id"
    /\ Len(tr_response.output_ids) = 1
    /\ \E i \in 1 .. Len(tr_request.input_ids) :
            tr_request.input_ids[i].variant = "Private"
    /\ \E i \in 1 .. Len(tr_request.input_ids) :
            /\ tr_request.input_ids[i].variant = "Record"
            /\ ~InputIDMatches(tr_request, tr_input_types, i)

(***************************************************************************)
(* The byte encoding of a transition.  A buffer is a sequence of bytes; a   *)
(* reader returns the value it read and the bytes it left, or an error.     *)
(***************************************************************************)
Bytes == 0 .. 255

Read(value, rest) == [ok |-> TRUE, value |-> value, rest |-> rest]
IoError(message) == [ok |-> FALSE, error |-> message]
UnexpectedEof == IoError("failed to fill whole buffer")

\* `u8::read_le` and `u8::write_le`.
u8_read_le(reader) ==
    IF Len(reader) < 1 THEN UnexpectedEof ELSE Read(reader[1], Tail(reader))
u8_write_le(n) == <<n>>

\* `u16::read_le` and `u16::write_le`: two bytes, the low one first.
u16_read_le(reader) ==
    IF Len(reader) < 2 THEN UnexpectedEof
    ELSE Read(reader[1] + 256 * reader[2], SubSeq(reader, 3, Len(reader)))
u16_write_le(n) == <<n % 256, (n \div 256) % 256>>

\* `bool::read_le` and `bool::write_le`: one byte, 0 or 1.
bool_read_le(reader) ==
    IF Len(reader) < 1 THEN UnexpectedEof
    ELSE IF reader[1] \notin {0, 1} THEN IoError("Invalid boolean")
    ELSE Read(reader[1] = 1, Tail(reader))
bool_write_le(b) == IF b THEN <<1>> ELSE <<0>>

\* `i64::write_le`: eight bytes of the two's complement, the low one first.
\* A fee of the model lies between -2^31 and 2^31 - 1.
i64_write_le(n) ==
    LET low == IF n >= 0 THEN n ELSE -(n + 1)
        b(i) == (low \div (256 ^ (i - 1))) % 256
    IN [i \in 1 .. 8 |-> IF i <= 4 THEN (IF n >= 0 THEN b(i) ELSE 255 - b(i))
                         ELSE (IF n >= 0 THEN 0 ELSE 255)]

\* `i64::read_le`.  A value outside -2^31 .. 2^31 - 1 is kept as its bytes.
i64_read_le(reader) ==
    IF Len(reader) < 8 THEN UnexpectedEof
    ELSE LET b == SubSeq(reader, 1, 8)
             rest == SubSeq(reader, 9, Len(reader))
             low == b[1] + 256 * b[2] + 65536 * b[3] + 16777216 * (b[4] % 128)
             high == {b[i] : i \in 5 .. 8}
         IN IF high = {0} /\ b[4] < 128 THEN Read(low, rest)
            ELSE IF high = {255} /\ b[4] >= 128
            THEN Read(-((127 - (b[4] % 128)) * 16777216 + (255 - b[3]) * 65536
                        + (255 - b[2]) * 256 + (255 - b[1])) - 1, rest)
            ELSE Read([wide |-> b], rest)

\* `Field::read_le` and `Field::write_le`: the canonical representative in
\* little-endian bytes, two of them for the field of the model.
Field_read_le(reader) ==
    IF Len(reader) < 2 THEN UnexpectedEof
    ELSE IF reader[1] + 256 * reader[2] \notin Fields THEN IoError("Invalid field element")
    ELSE Read(reader[1] + 256 * reader[2], SubSeq(reader, 3, Len(reader)))
Field_write_le(f) == <<f % 256, (f \div 256) % 256>>

\* `Group::read_le` and `Group::write_le`: as wide as a field element.
Group_read_le(reader) ==
    IF Len(reader) < 2 THEN UnexpectedEof
    ELSE IF reader[1] + 256 * reader[2] \notin Groups THEN IoError("Invalid group element")
    ELSE Read(reader[1] + 256 * reader[2], SubSeq(reader, 3, Len(reader)))
Group_write_le(g) == <<g % 256, (g \div 256) % 256>>

\* The letters `a` to `z`, the digits and the underscore, as bytes.
Letters == 97 .. 122
IdentifierBytes == Letters \cup (48 .. 57) \cup (65 .. 90) \cup {95}

\* `Identifier::write_le`: the size and the characters.  The identifier `n`
\* of the model is the name of the one letter number `n`.
Identifier_write_le(name) == <<1, 96 + name>>

\* `Identifier::read_le`.  A name of several characters, which is none of
\* the names of the model, is kept as its characters.
Identifier_read_le(reader) ==
    IF Len(reader) < 1 THEN UnexpectedEof
    ELSE LET size == reader[1]
         IN IF Len(reader) < 1 + size THEN UnexpectedEof
            ELSE LET chars == SubSeq(reader, 2, 1 + size)
                     rest == SubSeq(reader, 2 + size, Len(reader))
                 IN IF \/ size = 0
                       \/ chars[1] \notin Letters \cup (65 .. 90)
                       \/ \E i \in 1 .. size : chars[i] \notin IdentifierBytes
                    THEN IoError("Invalid identifier")
                    ELSE IF size = 1 /\ chars[1] \in Letters
                    THEN Read(chars[1] - 96, rest)
                    ELSE Read([chars |-> chars], rest)

\* The `?` of the readers: what follows a reader is computed from the value
\* it read and the bytes it left, and an error is returned as it is.
AndThen(read, Following(_, _)) ==
    IF read.ok THEN Following(read.value, read.rest) ELSE read

\* `ProgramID::write_le` and `ProgramID::read_le`: the name and the network,
\* which is `aleo`, the identifier 1 of the model.
ProgramID_write_le(pid) == Identifier_write_le(pid.name) \o Identifier_write_le(pid.network)
ProgramID_read_le(reader) ==
    AndThen(Identifier_read_le(reader), LAMBDA name, after_name :
    AndThen(Identifier_read_le(after_name), LAMBDA network, rest :
        IF network # 1 THEN IoError("Invalid network-level domain")
        ELSE Read([name |-> name, network |-> network], rest)))

\* `Plaintext::write_le` and `Plaintext::read_le`: the variant of a literal
\* and the literal, a field element.
Plaintext_write_le(plaintext) == <<0>> \o Field_write_le(plaintext.v)
Plaintext_read_le(reader) ==
    AndThen(u8_read_le(reader), LAMBDA variant, after_variant :
        IF variant # 0 THEN IoError("Failed to decode plaintext variant")
        ELSE AndThen(Field_read_le(after_variant), LAMBDA literal, rest :
                Read(Plaintext(literal), rest)))

\* The field elements a reader holds after their number.
RECURSIVE Fields_read_le(_, _, _)
Fields_read_le(reader, count, sofar) ==
    IF count = 0 THEN Read(sofar, reader)
    ELSE AndThen(Field_read_le(reader), LAMBDA f, rest :
            Fields_read_le(rest, count - 1, Append(sofar, f)))

\* `Ciphertext::write_le` and `Ciphertext::read_le`, also of the ciphertext
\* of a record: the number of field elements and the field elements.
Ciphertext_write_le(ciphertext) ==
    u16_write_le(Len(ciphertext))
        \o Flatten([i \in 1 .. Len(ciphertext) |-> Field_write_le(ciphertext[i])])
Ciphertext_read_le(reader) ==
    AndThen(u16_read_le(reader), LAMBDA count, rest : Fields_read_le(rest, count, <<>>))

\* An optional value as Output::write_le and Input::write_le write it.
Option_write_le(optional, written) ==
    IF optional = None THEN bool_write_le(FALSE) ELSE bool_write_le(TRUE) \o written

\* The optional plaintext of a constant or public input or output.
OptionalPlaintext_write_le(optional) ==
    Option_write_le(optional,
                    IF optional = None THEN <<>>
                    ELSE Plaintext_write_le(CHOOSE plaintext \in optional : TRUE))
OptionalPlaintext_read_le(reader) ==
    AndThen(bool_read_le(reader), LAMBDA plaintext_exists, after_exists :
        IF plaintext_exists
        THEN AndThen(Plaintext_read_le(after_exists), LAMBDA plaintext, rest :
                Read(Some(plaintext), rest))
        ELSE Read(None, after_exists))

\* The optional ciphertext of a private input or output or of a record.
OptionalCiphertext_write_le(optional) ==
    Option_write_le(optional,
                    IF optional = None THEN <<>>
                    ELSE Ciphertext_write_le(CHOOSE ciphertext \in optional : TRUE))
OptionalCiphertext_read_le(reader) ==
    AndThen(bool_read_le(reader), LAMBDA ciphertext_exists, after_exists :
        IF ciphertext_exists
        THEN AndThen(Ciphertext_read_le(after_exists), LAMBDA ciphertext, rest :
                Read(Some(ciphertext), rest))
        ELSE Read(None, after_exists))

\* The variant of an output or an input.
VariantNames == <<"Constant", "Public", "Private", "Record", "ExternalRecord">>
VariantOf(name) == (CHOOSE i \in 1 .. Len(VariantNames) : VariantNames[i] = name) - 1

\* Output::write_le that writes the variant of a constant for a public output.
Output_write_le_public_as_constant(output) ==
    CASE output.variant \in {"Constant", "Public"} ->
            u8_write_le(0) \o Field_write_le(output.id)
                \o OptionalPlaintext_write_le(output.value)
      [] output.variant = "Private" ->
            u8_write_le(2) \o Field_write_le(output.id)
                \o OptionalCiphertext_write_le(output.value)
      [] output.variant = "Record" ->
            u8_write_le(3) \o Field_write_le(output.id) \o Field_write_le(output.checksum)
                \o OptionalCiphertext_write_le(output.value)
      [] output.variant = "ExternalRecord" -> u8_write_le(4) \o Field_write_le(output.id)

\* `Output::write_le`.
Output_write_le(output) ==
    u8_write_le(VariantOf(output.variant)) \o
    CASE output.variant \in {"Constant", "Public"} ->
            Field_write_le(output.id) \o OptionalPlaintext_write_le(output.value)
      [] output.variant = "Private" ->
            Field_write_le(output.id) \o OptionalCiphertext_write_le(output.value)
      [] output.variant = "Record" ->
            Field_write_le(output.id) \o Field_write_le(output.checksum)
                \o OptionalCiphertext_write_le(output.value)
      [] output.variant = "ExternalRecord" -> Field_write_le(output.id)

\* `Output::read_le`.
Output_read_le(reader) ==
    AndThen(u8_read_le(reader), LAMBDA index, after_index :
        CASE index = 0 ->
                AndThen(Field_read_le(after_index), LAMBDA plaintext_hash, after_hash :
                AndThen(OptionalPlaintext_read_le(after_hash), LAMBDA plaintext, rest :
                    Read(ConstantOutput(plaintext_hash, plaintext), rest)))
          [] index = 1 ->
                AndThen(Field_read_le(after_index), LAMBDA plaintext_hash, after_hash :
                AndThen(OptionalPlaintext_read_le(after_hash), LAMBDA plaintext, rest :
                    Read(PublicOutput(plaintext_hash, plaintext), rest)))
          [] index = 2 ->
                AndThen(Field_read_le(after_index), LAMBDA ciphertext_hash, after_hash :
                AndThen(OptionalCiphertext_read_le(after_hash), LAMBDA ciphertext, rest :
                    Read(PrivateOutput(ciphertext_hash, ciphertext), rest)))
          [] index = 3 ->
                AndThen(Field_read_le(after_index), LAMBDA commitment, after_commitment :
                AndThen(Field_read_le(after_commitment), LAMBDA checksum, after_checksum :
                AndThen(OptionalCiphertext_read_le(after_checksum),
                        LAMBDA record_ciphertext, rest :
                    Read(RecordOutput(commitment, checksum, record_ciphertext), rest))))
          [] index = 4 ->
                AndThen(Field_read_le(after_index), LAMBDA commitment, rest :
                    Read(ExternalRecordOutput(commitment), rest))
          [] index >= 5 -> IoError("Failed to decode output variant"))

\* `Input::write_le`.
Input_write_le(input) ==
    u8_write_le(VariantOf(input.variant)) \o
    CASE input.variant \in {"Constant", "Public"} ->
            Field_write_le(input.id) \o OptionalPlaintext_write_le(input.value)
      [] input.variant = "Private" ->
            Field_write_le(input.id) \o OptionalCiphertext_write_le(input.value)
      [] input.variant = "Record" ->
            Field_write_le(input.id) \o Field_write_le(input.tag)
      [] input.variant = "ExternalRecord" -> Field_write_le(input.id)

\* `Input::read_le`.
Input_read_le(reader) ==
    AndThen(u8_read_le(reader), LAMBDA index, after_index :
        CASE index = 0 ->
                AndThen(Field_read_le(after_index), LAMBDA plaintext_hash, after_hash :
                AndThen(OptionalPlaintext_read_le(after_hash), LAMBDA plaintext, rest :
                    Read(ConstantInput(plaintext_hash, plaintext), rest)))
          [] index = 1 ->
                AndThen(Field_read_le(after_index), LAMBDA plaintext_hash, after_hash :
                AndThen(OptionalPlaintext_read_le(after_hash), LAMBDA plaintext, rest :
                    Read(PublicInput(plaintext_hash, plaintext), rest)))
          [] index = 2 ->
                AndThen(Field_read_le(after_index), LAMBDA ciphertext_hash, after_hash :
                AndThen(OptionalCiphertext_read_le(after_hash), LAMBDA ciphertext, rest :
                    Read(PrivateInput(ciphertext_hash, ciphertext), rest)))
          [] index = 3 ->
                AndThen(Field_read_le(after_index), LAMBDA serial_number, after_serial :
                AndThen(Field_read_le(after_serial), LAMBDA rtag, rest :
                    Read(RecordInput(serial_number, rtag), rest)))
          [] index = 4 ->
                AndThen(Field_read_le(after_index), LAMBDA input_hash, rest :
                    Read(ExternalRecordInput(input_hash), rest))
          [] index >= 5 -> IoError("Failed to decode transition input variant"))

\* `Value::write_le` and `Value::read_le` of an input of finalize, which is
\* a plaintext: the variant of a plaintext and the plaintext.
Value_write_le(value) == <<0>> \o Plaintext_write_le(value)
Value_read_le(reader) ==
    AndThen(u8_read_le(reader), LAMBDA variant, rest :
        IF variant # 0 THEN IoError("Failed to decode value variant")
        ELSE Plaintext_read_le(rest))

\* `Proof::write_le` and `Proof::read_le`: a proof is one byte long.
Proof_write_le(proof) == proof
Proof_read_le(reader) ==
    IF Len(reader) < 1 THEN UnexpectedEof ELSE Read(<<reader[1]>>, Tail(reader))

\* The entries a reader holds after their number: the loops of read_le.
Entry_read_le(kind, reader) ==
    CASE kind = "input" -> Input_read_le(reader)
      [] kind = "output" -> Output_read_le(reader)
      [] kind = "finalize" -> Value_read_le(reader)

RECURSIVE Entries_read_le(_, _, _, _)
Entries_read_le(kind, reader, count, sofar) ==
    IF count = 0 THEN Read(sofar, reader)
    ELSE AndThen(Entry_read_le(kind, reader), LAMBDA entry, rest :
            Entries_read_le(kind, rest, count - 1, Append(sofar, entry)))

\* Transition::write_le that writes no variant of finalize.
write_le_without_finalize_variant(t) ==
    u16_write_le(0)
        \o Field_write_le(t.id)
        \o ProgramID_write_le(t.program_id)
        \o Identifier_write_le(t.function_name)
        \o u16_write_le(Len(t.inputs))
        \o Flatten([i \in 1 .. Len(t.inputs) |-> Input_write_le(t.inputs[i])])
        \o u16_write_le(Len(t.outputs))
        \o Flatten([i \in 1 .. Len(t.outputs) |-> Output_write_le(t.outputs[i])])
        \o (IF t.finalize = None THEN <<>>
            ELSE LET finalize == CHOOSE f \in t.finalize : TRUE
                 IN u16_write_le(Len(finalize))
                        \o Flatten([i \in 1 .. Len(finalize) |-> Value_write_le(finalize[i])]))
        \o Proof_write_le(t.proof)
        \o Group_write_le(t.tpk)
        \o Field_write_le(t.tcm)
        \o i64_write_le(t.fee)

\* Transition::write_le.
write_le(t) ==
    u16_write_le(0)
        \o Field_write_le(t.id)
        \o ProgramID_write_le(t.program_id)
        \o Identifier_write_le(t.function_name)
        \o u16_write_le(Len(t.inputs))
        \o Flatten([i \in 1 .. Len(t.inputs) |-> Input_write_le(t.inputs[i])])
        \o u16_write_le(Len(t.outputs))
        \o Flatten([i \in 1 .. Len(t.outputs) |-> Output_write_le(t.outputs[i])])
        \o (IF t.finalize = None THEN u8_write_le(0)
            ELSE LET finalize == CHOOSE f \in t.finalize : TRUE
                 IN u8_write_le(1) \o u16_write_le(Len(finalize))
                        \o Flatten([i \in 1 .. Len(finalize) |-> Value_write_le(finalize[i])]))
        \o Proof_write_le(t.proof)
        \o Group_write_le(t.tpk)
        \o Field_write_le(t.tcm)
        \o i64_write_le(t.fee)

\* The finalize inputs of Transition::read_le.
Finalize_read_le(reader) ==
    AndThen(u8_read_le(reader), LAMBDA finalize_variant, after_variant :
        CASE finalize_variant = 0 -> Read(None, after_variant)
          [] finalize_variant = 1 ->
                AndThen(u16_read_le(after_variant), LAMBDA num_finalize_inputs, after_num :
                AndThen(Entries_read_le("finalize", after_num, num_finalize_inputs, <<>>),
                        LAMBDA read_finalize, rest : Read(Some(read_finalize), rest)))
          [] finalize_variant >= 2 -> IoError("Invalid transition finalize variant"))

\* The end of Transition::read_le without the comparison of the IDs.
Candidate_read_le_without_comparison(read_transition_id, candidate, rest) ==
    IF candidate.status # "ok" THEN IoError("Transition::new")
    ELSE Read(candidate.transition, rest)

\* The end of Transition::read_le: the candidate transition and the
\* comparison of its ID with the ID that was read.
Candidate_read_le(read_transition_id, candidate, rest) ==
    IF candidate.status # "ok" THEN IoError("Transition::new")
    ELSE IF read_transition_id = candidate.transition.id
    THEN Read(candidate.transition, rest)
    ELSE IoError("Transition ID is incorrect, possible data corruption")

\* Transition::read_le.
read_le(reader) ==
    AndThen(u16_read_le(reader), LAMBDA read_version, after_version :
        IF read_version # 0 THEN IoError("Invalid transition version")
        ELSE
    AndThen(Field_read_le(after_version), LAMBDA read_transition_id, after_id :
    AndThen(ProgramID_read_le(after_id), LAMBDA read_program_id, after_program :
    AndThen(Identifier_read_le(after_program), LAMBDA read_function_name, after_name :
    AndThen(u16_read_le(after_name), LAMBDA read_num_inputs, after_num_inputs :
    AndThen(Entries_read_le("input", after_num_inputs, read_num_inputs, <<>>),
            LAMBDA read_inputs, after_inputs :
    AndThen(u16_read_le(after_inputs), LAMBDA read_num_outputs, after_num_outputs :
    AndThen(Entries_read_le("output", after_num_outputs, read_num_outputs, <<>>),
            LAMBDA read_outputs, after_outputs :
    AndThen(Finalize_read_le(after_outputs), LAMBDA read_finalize, after_finalize :
    AndThen(Proof_read_le(after_finalize), LAMBDA read_proof, after_proof :
    AndThen(Group_read_le(after_proof), LAMBDA read_tpk, after_tpk :
    AndThen(Field_read_le(after_tpk), LAMBDA read_tcm, after_tcm :
    AndThen(i64_read_le(after_tcm), LAMBDA read_fee, rest :
        Candidate_read_le(read_transition_id,
                          new(read_program_id, read_function_name, read_inputs,
                              read_outputs, read_finalize, read_proof, read_tpk,
                              read_tcm, read_fee),
                          rest))))))))))))))

(***************************************************************************)
(* The scenario of the bytes: a transition is built by Transition::new,    *)
(* written to a buffer, read from the buffer, and read from the buffer      *)
(* without its first byte.                                                   *)
(***************************************************************************)
\* The inputs, outputs, inputs of finalize and fees of the sampled transitions.
WireInputs ==
    {ConstantInput(3, Some(Plaintext(2))), PublicInput(1, None),
     PrivateInput(0, Some(<<5>>)), RecordInput(4, 6), ExternalRecordInput(2)}
WireOutputs ==
    {ConstantOutput(1, None), PublicOutput(0, Some(Plaintext(6))),
     PrivateOutput(2, Some(<<4>>)), RecordOutput(5, 3, Some(<<1, 0, 6, 2>>)),
     RecordOutput(3, 0, None), ExternalRecordOutput(4)}
WireFinalizes == {None, Some(<<>>), Some(<<Plaintext(3), Plaintext(0)>>)}
WireFees == {-1, 0, 16777216}

BytesInit ==
    /\ pc = "built"
    /\ \E n \in 0 .. MaxInputs, k \in 0 .. MaxOutputs :
         \E ins \in [1 .. n -> WireInputs], outs \in [1 .. k -> WireOutputs],
            finalize \in WireFinalizes, fee \in WireFees :
            wire_transition = new(TokenProgram, 2, ins, outs, finalize, TransitionProof,
                                  (n + k) % ScalarModulus, (n + 2 * k) % FieldModulus,
                                  fee).transition
    /\ wire_bytes = <<>>
    /\ wire_cut = 0
    /\ wire_result = 0
    /\ wire_output = 0
    /\ DomainIdle
    /\ RequestIdle
    /\ PuzzleIdle
    /\ StorageIdle
    /\ TransitionIdle

\* `expected.to_bytes_le()`.
DoWrite ==
    /\ pc = "built"
    /\ wire_bytes' = write_le(wire_transition)
    /\ pc' = "written"
    /\ UNCHANGED <<wire_transition, wire_cut, wire_result>>
    /\ UNCHANGED othersOfBytes

\* A buffer that holds another transition ID than the one of its inputs and
\* outputs: the bytes of the transition with the ID replaced.
DoWriteForged ==
    /\ pc = "built"
    /\ \E other \in Fields \ {wire_transition.id} :
          wire_bytes' = write_le([wire_transition EXCEPT !.id = other])
    /\ pc' = "written"
    /\ UNCHANGED <<wire_transition, wire_cut, wire_result>>
    /\ UNCHANGED othersOfBytes

\* `Transition::read_le(&expected_bytes[..])`.
DoRead ==
    /\ pc = "written"
    /\ wire_result' = read_le(wire_bytes)
    /\ pc' = "read"
    /\ UNCHANGED <<wire_transition, wire_bytes, wire_cut>>
    /\ UNCHANGED othersOfBytes

\* `Transition::read_le(&expected_bytes[1..])`.
DoReadTruncated ==
    /\ pc = "read"
    /\ wire_cut' = read_le(Tail(wire_bytes))
    /\ pc' = "read_truncated"
    /\ UNCHANGED <<wire_transition, wire_bytes, wire_result>>
    /\ UNCHANGED othersOfBytes

BytesNext ==
    \/ DoWrite
    \/ DoWriteForged
    \/ DoRead
    \/ DoReadTruncated

SpecBytes == BytesInit /\ [][BytesNext]_vars

\* C20: the transition read from the bytes that write_le wrote for a
\* transition built by Transition::new is that transition, and reading the
\* same bytes without their first byte returns an error.
C20_BytesRoundTrip ==
    wire_bytes = write_le(wire_transition)
        => /\ pc \in {"read", "read_truncated"}
                => /\ wire_result.ok
                   /\ wire_result.value = wire_transition
           /\ pc = "read_truncated" => ~wire_cut.ok

\* A transition with inputs, outputs, inputs of finalize and a negative fee
\* was written, read back, and read without the first byte of its bytes.
C20_Witness ==
    /\ pc = "read_truncated"
    /\ wire_bytes = write_le(wire_transition)
    /\ Len(wire_transition.inputs) > 0
    /\ Len(wire_transition.outputs) > 0
    /\ \E finalize \in wire_transition.finalize : Len(finalize) > 0
    /\ wire_transition.fee < 0
    /\ wire_result = Read(wire_transition, <<>>)
    /\ ~wire_cut.ok

\* The buffer holds the bytes of the transition with another ID.
ForgedID ==
    \E other \in Fields \ {wire_transition.id} :
        wire_bytes = write_le([wire_transition EXCEPT !.id = other])

\* The ID of a transition that was read is the root of its function tree.
RootIsID(read) ==
    read.ok => read.value.id = function_tree_root(read.value.inputs, read.value.outputs)

\* C21: read_le computes the transition ID from the inputs and outputs it
\* read: it returns an error when the buffer holds another ID, and the ID of
\* a transition it returns is the root of the function tree of the inputs and
\* outputs of that transition.
C21_IDRecomputed ==
    /\ pc \in {"read", "read_truncated"}
         => /\ RootIsID(wire_result)
            /\ ForgedID => wire_result
                             = IoError("Transition ID is incorrect, possible data corruption")
    /\ pc = "read_truncated" => RootIsID(wire_cut)

\* A buffer with inputs, outputs and another ID than their root was read.
C21_Witness ==
    /\ pc = "read"
    /\ ForgedID
    /\ Len(wire_transition.inputs) > 0
    /\ Len(wire_transition.outputs) > 0
    /\ ~wire_result.ok

(***************************************************************************)
(* The scenario of the bytes of an output: an output is written to a       *)
(* buffer, the variant at the head of the buffer may be replaced by one     *)
(* that no output has, the buffer is read, and then the buffer without its  *)
(* first byte is.                                                           *)
(***************************************************************************)
\* The sampled outputs: the five kinds, with and without the optional value.
\* test_bytes expects the read of the bytes without the first one to fail for
\* each sample.  Output::read_le reads the bytes that follow the variant of
\* an output with no value and an ID with the low byte 4 as an external
\* record, and those of a record output with the checksum 0 as an output with
\* no value: the samples have no such ID and no such checksum.
SampleIDs == Fields \ {4}
SampleChecksums == {3, 6}
OptionalPlaintexts == {None} \cup {Some(Plaintext(v)) : v \in Fields}
OptionalCiphertexts == {None, Some(<<>>), Some(<<5>>), Some(<<1, 0, 6, 2>>)}
SampleOutputs(variant) ==
    CASE variant = "Constant" ->
            {ConstantOutput(id, plaintext) :
                id \in SampleIDs, plaintext \in OptionalPlaintexts}
      [] variant = "Public" ->
            {PublicOutput(id, plaintext) :
                id \in SampleIDs, plaintext \in OptionalPlaintexts}
      [] variant = "Private" ->
            {PrivateOutput(id, ciphertext) :
                id \in SampleIDs, ciphertext \in OptionalCiphertexts}
      [] variant = "Record" ->
            {RecordOutput(commitment, checksum, record) :
                commitment \in SampleIDs, checksum \in SampleChecksums,
                record \in OptionalCiphertexts}
      [] variant = "ExternalRecord" -> {ExternalRecordOutput(id) : id \in SampleIDs}

\* The variants that no output has.
UnknownVariants == 5 .. 255

OutputBytesInit ==
    /\ pc = "output_sampled"
    /\ \E i \in 1 .. Len(VariantNames) : wire_output \in SampleOutputs(VariantNames[i])
    /\ wire_transition = 0
    /\ wire_bytes = <<>>
    /\ wire_cut = 0
    /\ wire_result = 0
    /\ DomainIdle
    /\ RequestIdle
    /\ PuzzleIdle
    /\ StorageIdle
    /\ TransitionIdle

\* `expected.to_bytes_le()`.
DoOutputWrite ==
    /\ pc = "output_sampled"
    /\ wire_bytes' = Output_write_le(wire_output)
    /\ pc' = "output_written"
    /\ UNCHANGED <<wire_output, wire_result, wire_cut>>
    /\ UNCHANGED othersOfOutputBytes

\* A buffer that starts with a variant that no output has.
DoOutputRetag ==
    /\ pc = "output_written"
    /\ \E index \in UnknownVariants :
          wire_bytes' = u8_write_le(index) \o Tail(wire_bytes)
    /\ pc' = "output_retagged"
    /\ UNCHANGED <<wire_output, wire_result, wire_cut>>
    /\ UNCHANGED othersOfOutputBytes

\* `Output::read_le(&expected_bytes[..])`.
DoOutputRead ==
    /\ pc \in {"output_written", "output_retagged"}
    /\ wire_result' = Output_read_le(wire_bytes)
    /\ pc' = "output_read"
    /\ UNCHANGED <<wire_output, wire_bytes, wire_cut>>
    /\ UNCHANGED othersOfOutputBytes

\* `Output::read_le(&expected_bytes[1..])`.
DoOutputReadTruncated ==
    /\ pc = "output_read"
    /\ wire_cut' = Output_read_le(Tail(wire_bytes))
    /\ pc' = "output_read_truncated"
    /\ UNCHANGED <<wire_output, wire_bytes, wire_result>>
    /\ UNCHANGED othersOfOutputBytes

OutputBytesNext ==
    \/ DoOutputWrite
    \/ DoOutputRetag
    \/ DoOutputRead
    \/ DoOutputReadTruncated

SpecOutputBytes == OutputBytesInit /\ [][OutputBytesNext]_vars

\* C22: the output read from the bytes that Output::write_le wrote for an
\* output of any of the five kinds, with or without its optional value, is
\* that output, and reading a buffer that starts with a variant of 5 or more
\* returns an error.
C22_OutputRoundTrip ==
    pc \in {"output_read", "output_read_truncated"}
        => /\ wire_bytes = Output_write_le(wire_output)
                => wire_result = Read(wire_output, <<>>)
           /\ wire_bytes[1] >= 5 => ~wire_result.ok

\* A record output with its record ciphertext was read back.
C22_Witness ==
    /\ pc = "output_read"
    /\ wire_bytes = Output_write_le(wire_output)
    /\ wire_output.variant = "Record"
    /\ wire_output.value # None
    /\ wire_result = Read(wire_output, <<>>)

\* test_bytes: the read of the bytes of a sample without the first one fails.
TruncatedOutputFails == pc = "output_read_truncated" => ~wire_cut.ok

(***************************************************************************)
(* CoinbasePuzzle::product_domain.  A u32 has `U32_BITS` bits here; a usize *)
(* is wider than a u32, and no usize of the computation overflows.          *)
(***************************************************************************)
U32_BITS == 6
U32_MAX == 2 ^ U32_BITS - 1

\* `u32::checked_add`, `u32::checked_mul` and `u32::checked_sub`.
checked_add(a, b) == IF a + b > U32_MAX THEN None ELSE Some(a + b)
checked_mul(a, b) == IF a * b > U32_MAX THEN None ELSE Some(a * b)
checked_sub(a, b) == IF a < b THEN None ELSE Some(a - b)

\* `u32` arithmetic that wraps around.
wrapping(n) == n % (U32_MAX + 1)

\* `usize::checked_next_power_of_two`, of a usize that is a u32.
RECURSIVE power_of_two_from(_, _)
power_of_two_from(power, n) ==
    IF power >= n THEN power ELSE power_of_two_from(2 * power, n)
next_power_of_two(n) == power_of_two_from(1, n)

\* The base-two logarithm of a power of two.
RECURSIVE log2(_)
log2(power) == IF power <= 1 THEN 0 ELSE 1 + log2(power \div 2)

\* The two-adicity of the scalar field of the pairing curve.
TWO_ADICITY == 47

\* `EvaluationDomain::new(num_coeffs)`: the domain of the size of the next
\* power of two, when the field has a root of unity of that order.
EvaluationDomain_new(num_coeffs) ==
    LET size == next_power_of_two(num_coeffs)
    IN IF log2(size) > TWO_ADICITY THEN None ELSE Some([size |-> size])

DomainError(message) == [status |-> "error", message |-> message]
DomainPanic == [status |-> "panic"]

\* product_domain with the arithmetic of a u32 that wraps around in place
\* of the checked one.
product_domain_wrapping(n) ==
    IF n = 0 THEN DomainError("Degree cannot be zero")
    ELSE LET product_num_coefficients == wrapping(wrapping(wrapping(n + 1) * 2) - 1)
             evaluation_domain == EvaluationDomain_new(product_num_coefficients)
         IN IF product_num_coefficients # wrapping(2 * n + 1) THEN DomainPanic
            ELSE IF evaluation_domain = None THEN DomainError("Invalid degree")
            ELSE LET d == CHOOSE d \in evaluation_domain : TRUE
                 IN IF d.size # next_power_of_two(product_num_coefficients)
                    THEN DomainPanic
                    ELSE [status |-> "ok", domain |-> d]

\* CoinbasePuzzle::product_domain.
product_domain(n) ==
    IF n = 0 THEN DomainError("Degree cannot be zero")
    ELSE LET num_coefficients == checked_add(n, 1)
         IN IF num_coefficients = None THEN DomainError("Degree is too large")
    ELSE LET doubled == checked_mul(CHOOSE c \in num_coefficients : TRUE, 2)
         IN IF doubled = None THEN DomainError("Degree is too large")
    ELSE LET product == checked_sub(CHOOSE c \in doubled : TRUE, 1)
         IN IF product = None THEN DomainError("Degree is too large")
    ELSE LET product_num_coefficients == CHOOSE c \in product : TRUE
             evaluation_domain == EvaluationDomain_new(product_num_coefficients)
         IN IF product_num_coefficients # wrapping(2 * n + 1) THEN DomainPanic
            ELSE IF evaluation_domain = None THEN DomainError("Invalid degree")
            ELSE LET d == CHOOSE d \in evaluation_domain : TRUE
                 IN IF d.size # next_power_of_two(product_num_coefficients)
                    THEN DomainPanic
                    ELSE [status |-> "ok", domain |-> d]

DomainInit ==
    /\ pc = "degree_chosen"
    /\ dom_degree \in 0 .. U32_MAX
    /\ dom_result = 0
    /\ RequestIdle
    /\ PuzzleIdle
    /\ StorageIdle
    /\ TransitionIdle
    /\ BytesIdle

\* `Self::product_domain(config.degree)`.
DoProductDomain ==
    /\ pc = "degree_chosen"
    /\ dom_result' = product_domain(dom_degree)
    /\ pc' = "domain_returned"
    /\ UNCHANGED dom_degree
    /\ UNCHANGED othersOfDomain

DomainNext == DoProductDomain

SpecDomain == DomainInit /\ [][DomainNext]_vars

\* C25: product_domain returns an error for the degree 0 and for a degree
\* whose doubled number of coefficients does not fit a u32, and for every
\* other degree n a domain of the size of the next power of two from
\* 2n + 1; none of its two assertions fails.
C25_ProductDomain ==
    pc = "domain_returned"
        => IF dom_degree = 0 \/ 2 * (dom_degree + 1) > U32_MAX
           THEN dom_result.status = "error"
           ELSE /\ dom_result.status = "ok"
                /\ dom_result.domain.size = next_power_of_two(2 * dom_degree + 1)

\* A domain was returned for the greatest degree that has one, and its size
\* is greater than the number of the coefficients of the product.
C25_Witness ==
    /\ pc = "domain_returned"
    /\ 2 * (dom_degree + 1) <= U32_MAX
    /\ 2 * (dom_degree + 2) > U32_MAX
    /\ dom_result.status = "ok"
    /\ dom_result.domain.size > 2 * dom_degree + 1

====
